---- MODULE Spec2Model ----
(***************************************************************************)
(* A model of chargebyte's ra-utils: the operational (CB) UART protocol    *)
(* with its device state, the Renesas RA bootloader protocol, and the two  *)
(* command line tools ra-raw and ra-update built on them.                  *)
(*                                                                         *)
(* 64-bit words are kept as four 16-bit limbs <<w3, w2, w1, w0>> (w3 holds *)
(* bits 48..63), 32-bit words as two limbs <<hi, lo>>: TLC's integers are  *)
(* 32 bits wide.                                                           *)
(***************************************************************************)
EXTENDS Integers, Sequences, FiniteSets, TLC

(***************************************************************************)
(* Bit helpers                                                             *)
(***************************************************************************)

\* BITMASK(len): (1 << len) - 1
BITMASK(len) == (2 ^ len) - 1

Min(a, b) == IF a < b THEN a ELSE b

\* the limb (1..4) of a 64-bit word holding bit `bit`, and the bit inside it
LimbOf(bit) == 4 - (bit \div 16)
BitIn(bit) == bit % 16

ZeroWord == <<0, 0, 0, 0>>

\* DATA_GET_BITS(src, bit, len): the field must not cross a limb
DATA_GET_BITS(src, bit, len) ==
    (src[LimbOf(bit)] \div (2 ^ BitIn(bit))) % (2 ^ len)

\* a DATA_SET_BITS that neither clears the field nor masks the source
DATA_SET_BITS_NoMask(dst, bit, len, datasource) ==
    [dst EXCEPT ![LimbOf(bit)] = @ + datasource * (2 ^ BitIn(bit))]

\* DATA_SET_BITS(dst, bit, len, datasource): clear the field, then or in
\* the low `len` bits of datasource
DATA_SET_BITS(dst, bit, len, datasource) ==
    LET old   == dst[LimbOf(bit)]
        field == (old \div (2 ^ BitIn(bit))) % (2 ^ len)
        clr   == old - field * (2 ^ BitIn(bit))
    IN  [dst EXCEPT ![LimbOf(bit)] =
            clr + (datasource % (BITMASK(len) + 1)) * (2 ^ BitIn(bit))]

BoolToInt(b) == IF b THEN 1 ELSE 0

(***************************************************************************)
(* Program constants                                                       *)
(***************************************************************************)

CC2_CCS_NOT_READY == 0
CC2_CCS_READY == 1
CC2_CCS_EMERGENCY_STOP == 2
CB_PROTO_MAX_CONTACTORS == 2
DUTY_MAX == 1000

(***************************************************************************)
(* Bounds and input sets                                                   *)
(***************************************************************************)

\* number of setter calls followed in the setter specification
MaxCtlOps == 2

\* number of cb_uart_recv_and_sync calls followed
MaxSyncCalls == 3

\* number of valid frames on the line after the garbage
MaxSyncFrames == 4

\* frames ra-raw's loop receives, keys it reads
MaxRawRx == 2
MaxRawKeys == 1

\* calls of the reset functions on one GPIO context
MaxGpCalls == 2

\* arguments tried for cb_proto_set_duty_cycle (unsigned int)
DutyInputs == {0, 1, 50, 999, 1000, 1001, 1023, 1024, 1500, 2047, 65535, 2147483647}

(***************************************************************************)
(* State                                                                   *)
(***************************************************************************)

VARIABLES
    impl,            \* which library the setters come from: "lib" or "libcbuart"
    charge_control,  \* struct safety_controller.charge_control (setter spec)
    ctl_op,          \* the last setter called, with its arguments
    ctl_prev,        \* charge_control before that call
    ctl_n            \* number of setter calls so far

ctlVars == <<impl, charge_control, ctl_op, ctl_prev, ctl_n>>

VARIABLES
    wr_pc,       \* position inside ra_write: "cmd", "data", "done"
    wr_start,    \* start_addr (32 bits, two limbs)
    wr_len,      \* len
    wr_already,  \* already_written
    wr_rv,       \* the value ra_write returned (0 or -1), "none" while running
    wr_tx,       \* the packets written to the UART so far, in order
    wr_oks,      \* how many OK status responses were accepted so far
    wr_bad       \* a response was missing, malformed or not OK

wrVars == <<wr_pc, wr_start, wr_len, wr_already, wr_rv, wr_tx, wr_oks, wr_bad>>

VARIABLES
    sy_stream,   \* the bytes the safety controller puts on the line, in order
    sy_pos,      \* how many of them the host has taken (read or flushed)
    sy_pc,       \* "idle", "retry" (inside cb_uart_recv_and_sync), "returned"
    sy_trial,    \* unsigned int trial
    sy_rv,       \* the value the last call returned, "none" before
    sy_com,      \* *com of the caller, "unset" until written
    sy_data,     \* *data of the caller, "unset" until written
    sy_bad,      \* receive attempts of this call that ended in EBADMSG
    sy_failed,   \* receive attempts that ended in EBADMSG since the start
    sy_flushed,  \* successful uart_flush_input calls of this call
    sy_out,      \* per returned call: its value and the frame it delivered
    sy_calls     \* number of calls so far

syVars == <<sy_stream, sy_pos, sy_pc, sy_trial, sy_rv, sy_com, sy_data,
            sy_bad, sy_failed, sy_flushed, sy_out, sy_calls>>

VARIABLES
    up_pc,        \* position inside ra-update's main
    up_cmd,       \* enum cmd chosen on the command line
    up_file,      \* fw_filename is set
    up_filesize,  \* fw_filesize after fw_mmap
    up_gpio,      \* gpio != NULL
    up_fd,        \* uart.fd != -1
    up_baud,      \* the baud rate the transport runs at, 0 while closed
    up_roe,       \* reset_to_normal_on_exit
    up_rc,        \* rc
    up_fail,      \* the step the run failed at, "none" otherwise
    up_setup,     \* outcome of setup_uart_communication: "none", "ok", "failed"
    up_brt,       \* outcome of ra_set_baudrate: "none", "ok", "failed"
    up_log        \* GPIO and transport operations so far, in order

upVars == <<up_pc, up_cmd, up_file, up_filesize, up_gpio, up_fd, up_baud,
            up_roe, up_rc, up_fail, up_setup, up_brt, up_log>>

VARIABLES
    rw_pc,        \* position inside ra-raw's main: "start", "loop_top", "poll", "exited"
    rw_ctx,       \* struct safety_controller ctx
    rw_com,       \* enum cb_uart_com com (not initialised by main)
    rw_flags,     \* fw_version_requested, fw_version_received, git_hash_requested, git_hash_received
    rw_send_cc,   \* send_charge_control
    rw_tx,        \* the frames the last step of main wrote to the UART
    rw_rc,        \* the value main returned, "none" while running
    rw_owed,      \* a charge state frame came in with auto-send on and no
                  \* charge control frame has been written since
    rw_trig,      \* a CCY FW_VERSION or a CHARGE_STATE_2 frame was received so far
    rw_last_rx,   \* the frame the last pass of the loop received, <<>> if none
    rw_prev_ctx,  \* ctx just before that frame was applied
    rw_rxn,       \* frames received by the loop so far
    rw_keyn,      \* keys read so far
    rw_hist,      \* what went over the UART so far: inquiries written per kind,
                  \* the head of the first frame written, FW_VERSION received;
                  \* the user ended the session with 'q' or Ctrl-C
    rw_res,       \* the resources main holds: uart.fd != -1; whether
                  \* make_stdin_unbuffered filled termios_orig; what the
                  \* tcsetattr of close_out was given: "none", "saved",
                  \* "uninitialised"
    rw_fresh,     \* a charge state frame came in and the top of the loop has
                  \* written no charge control frame since
    rw_state_com  \* the COM of the last charge state frame received, 0 if none

rwVars == <<rw_pc, rw_ctx, rw_com, rw_flags, rw_send_cc, rw_tx, rw_rc, rw_owed,
            rw_trig, rw_last_rx, rw_prev_ctx, rw_rxn, rw_keyn, rw_hist, rw_res,
            rw_fresh, rw_state_com>>

VARIABLES
    fr_pc,        \* "idle", "sent" (cb_uart_send returned), "received"
    fr_com,       \* the com argument of cb_uart_send
    fr_data,      \* the data argument of cb_uart_send
    fr_line,      \* the twelve bytes the line carries to the receiver, <<>> when none
    fr_touched,   \* the line changed a byte of the frame on its way
    fr_rv,        \* what cb_uart_recv returned, "none" before
    fr_errno,     \* errno after cb_uart_recv: "none", "io" (the read failed), "EBADMSG"
    fr_out_com,   \* the caller's com variable
    fr_out_data,  \* the caller's data variable
    fr_prev_com,  \* the caller's com variable before cb_uart_recv was called
    fr_prev_data  \* the caller's data variable before cb_uart_recv was called

frVars == <<fr_pc, fr_com, fr_data, fr_line, fr_touched, fr_rv, fr_errno,
            fr_out_com, fr_out_data, fr_prev_com, fr_prev_data>>

VARIABLES
    pk_pc,     \* "idle" before the call of a bootloader function, "returned" after
    pk_ready,  \* ra_comm_setup, INQUIRY, BAUDRATE_SETTING and the second INQUIRY
               \* all succeeded on this UART before the call
    pk_call,   \* the function called, its command code and its arguments
    pk_log,    \* the UART operations of the call, in order
    pk_rv,     \* the value returned, "none" before
    pk_errno   \* errno as the function set it itself, "unset" otherwise

pkVars == <<pk_pc, pk_ready, pk_call, pk_log, pk_rv, pk_errno>>

VARIABLES
    gp_pc,     \* "init" before ra_gpio_init, "no_ctx" when it returned NULL, then
               \* the position inside ra_reset_with_bootmode_selection: "idle",
               \* "rst_low", "md_set", "waited", "returned"; "crashed"
    gp_fn,     \* the function called: ra_reset_to_bootloader, ra_reset_to_normal, ra_hold_reset
    gp_rst,    \* level of the RESET line, 0 low, 1 high
    gp_md,     \* level of the MD line
    gp_dur,    \* ctx->rst_duration, in ms
    gp_log,    \* line writes and waits so far, in order
    gp_rv,     \* the value the last call returned
    gp_calls,  \* calls made so far
    gp_req     \* ctx->line_request: "none" before ra_gpio_init, "valid", "NULL"

gpVars == <<gp_pc, gp_fn, gp_rst, gp_md, gp_dur, gp_log, gp_rv, gp_calls, gp_req>>

VARIABLES
    pb_pc,      \* "idle", "stored" (the file holds a block), "read" (pb_read returned)
    pb_kind,    \* how the file was produced: "none", "pb_write", "legacy"
    pb_block,   \* the struct handed to pb_write, or the legacy struct stored
    pb_file,    \* the bytes of the file
    pb_out,     \* *param_block after pb_read
    pb_rv,      \* the value pb_read returned
    pb_legacy   \* pb_read took the branch for the pre-versioned layout

pbVars == <<pb_pc, pb_kind, pb_block, pb_file, pb_out, pb_rv, pb_legacy>>

VARIABLES
    pt_pc,      \* "idle", "decoded" (the accessors were called for a channel)
    pt_word,    \* ctx->pt1000
    pt_ch,      \* the channel asked for
    pt_active,  \* what cb_proto_pt1000_is_active returned
    pt_temp,    \* what cb_proto_pt1000_get_temp returned, in 0.1 degrees C
    pt_errors   \* what cb_proto_pt1000_get_errors returned

ptVars == <<pt_pc, pt_word, pt_ch, pt_active, pt_temp, pt_errors>>

VARIABLES
    ky_pc,        \* "off", "menu" (ra-raw reads keys in classic mode)
    ky_cc,        \* ctx.charge_control
    ky_cmd,       \* the key handled last, "" before the first
    ky_prev       \* the target duty cycle before that key

kyVars == <<ky_pc, ky_cc, ky_cmd, ky_prev>>

VARIABLES
    tm_pc,      \* "idle", "rejected", "parsed" (str_to_contactor_time returned 0),
                \* "rendered" (contactor_time_to_str ran on the stored byte)
    tm_in,      \* the string parsed: its leading decimal digits and what follows them
    tm_errno,   \* errno when str_to_contactor_time is entered
    tm_time,    \* the uint8_t stored in the parameter block
    tm_out      \* the string rendered: its decimal digits and what follows them

tmVars == <<tm_pc, tm_in, tm_errno, tm_time, tm_out>>

vars == <<ctlVars, wrVars, syVars, upVars, rwVars, frVars, pkVars, gpVars, pbVars, ptVars, kyVars, tmVars>>

\* the variables of the other parts, for each part
notCtl == <<wrVars, syVars, upVars, rwVars, frVars, pkVars, gpVars, pbVars, ptVars, kyVars, tmVars>>
notWr == <<ctlVars, syVars, upVars, rwVars, frVars, pkVars, gpVars, pbVars, ptVars, kyVars, tmVars>>
notSy == <<ctlVars, wrVars, upVars, rwVars, frVars, pkVars, gpVars, pbVars, ptVars, kyVars, tmVars>>
notUp == <<ctlVars, wrVars, syVars, rwVars, frVars, pkVars, gpVars, pbVars, ptVars, kyVars, tmVars>>
notRw == <<ctlVars, wrVars, syVars, upVars, frVars, pkVars, gpVars, pbVars, ptVars, kyVars, tmVars>>
notFr == <<ctlVars, wrVars, syVars, upVars, rwVars, pkVars, gpVars, pbVars, ptVars, kyVars, tmVars>>
notPk == <<ctlVars, wrVars, syVars, upVars, rwVars, frVars, gpVars, pbVars, ptVars, kyVars, tmVars>>
notGp == <<ctlVars, wrVars, syVars, upVars, rwVars, frVars, pkVars, pbVars, ptVars, kyVars, tmVars>>
notPb == <<ctlVars, wrVars, syVars, upVars, rwVars, frVars, pkVars, gpVars, ptVars, kyVars, tmVars>>
notPt == <<ctlVars, wrVars, syVars, upVars, rwVars, frVars, pkVars, gpVars, pbVars, kyVars, tmVars>>
notKy == <<ctlVars, wrVars, syVars, upVars, rwVars, frVars, pkVars, gpVars, pbVars, ptVars, tmVars>>
notTm == <<ctlVars, wrVars, syVars, upVars, rwVars, frVars, pkVars, gpVars, pbVars, ptVars, kyVars>>

\* struct safety_controller ctx = {}
ZeroCtx ==
    [charge_control |-> ZeroWord, charge_state |-> ZeroWord, pt1000 |-> ZeroWord,
     fw_version |-> ZeroWord, git_hash |-> ZeroWord, error_message |-> ZeroWord,
     mcs |-> FALSE]

NoFlags ==
    [fw_version_requested |-> FALSE, fw_version_received |-> FALSE,
     git_hash_requested |-> FALSE, git_hash_received |-> FALSE]

NoHist == [fw_inq |-> 0, git_inq |-> 0, git_early |-> FALSE, first |-> <<>>, fw_rx |-> FALSE,
           quit |-> FALSE]

\* the parts a specification does not run stay as follows
TmIdle ==
    /\ tm_pc = "off"
    /\ tm_in = [digits |-> <<>>, suffix |-> ""]
    /\ tm_errno = 0
    /\ tm_time = 0
    /\ tm_out = [digits |-> <<>>, suffix |-> ""]

KyIdle ==
    /\ ky_pc = "off"
    /\ ky_cc = ZeroWord
    /\ ky_cmd = ""
    /\ ky_prev = 0

PtIdle ==
    /\ pt_pc = "off"
    /\ pt_word = ZeroWord
    /\ pt_ch = 0
    /\ pt_active = FALSE
    /\ pt_temp = 0
    /\ pt_errors = 0

PbIdle ==
    /\ pb_pc = "off"
    /\ pb_kind = "none"
    /\ pb_block = <<>>
    /\ pb_file = <<>>
    /\ pb_out = <<>>
    /\ pb_rv = 0
    /\ pb_legacy = FALSE

GpIdle ==
    /\ gp_pc = "off"
    /\ gp_fn = "none"
    /\ gp_rst = 1
    /\ gp_md = 1
    /\ gp_dur = 0
    /\ gp_log = <<>>
    /\ gp_rv = 0
    /\ gp_calls = 0
    /\ gp_req = "none"

NoRes == [uart |-> FALSE, termios_saved |-> FALSE, tcset |-> "none"]
NoCall == [fn |-> "none", cmd |-> 0, addr |-> <<0, 0>>, n |-> 0, ack |-> FALSE]

PkIdle ==
    /\ pk_pc = "off"
    /\ pk_ready = FALSE
    /\ pk_call = NoCall
    /\ pk_log = <<>>
    /\ pk_rv = "none"
    /\ pk_errno = "unset"

FrIdle ==
    /\ fr_pc = "off"
    /\ fr_com = 0
    /\ fr_data = ZeroWord
    /\ fr_line = <<>>
    /\ fr_touched = FALSE
    /\ fr_rv = "none"
    /\ fr_errno = "none"
    /\ fr_out_com = 0
    /\ fr_out_data = ZeroWord
    /\ fr_prev_com = 0
    /\ fr_prev_data = ZeroWord

WrIdle ==
    /\ wr_pc = "off"
    /\ wr_start = <<0, 0>>
    /\ wr_len = 0
    /\ wr_already = 0
    /\ wr_rv = "none"
    /\ wr_tx = <<>>
    /\ wr_oks = 0
    /\ wr_bad = FALSE

CtlIdle ==
    /\ impl = "lib"
    /\ charge_control = ZeroWord
    /\ ctl_op = [name |-> "none", arg |-> 0, idx |-> 0]
    /\ ctl_prev = ZeroWord
    /\ ctl_n = 0

SyIdle ==
    /\ sy_stream = <<>>
    /\ sy_pos = 0
    /\ sy_pc = "off"
    /\ sy_trial = 0
    /\ sy_rv = "none"
    /\ sy_com = "unset"
    /\ sy_data = "unset"
    /\ sy_bad = 0
    /\ sy_failed = 0
    /\ sy_flushed = 0
    /\ sy_out = <<>>
    /\ sy_calls = 0

UpIdle ==
    /\ up_pc = "off"
    /\ up_cmd = "none"
    /\ up_file = FALSE
    /\ up_filesize = 0
    /\ up_gpio = FALSE
    /\ up_fd = FALSE
    /\ up_baud = 0
    /\ up_roe = FALSE
    /\ up_rc = "EXIT_FAILURE"
    /\ up_fail = "none"
    /\ up_setup = "none"
    /\ up_brt = "none"
    /\ up_log = <<>>

RwIdle ==
    /\ rw_pc = "off"
    /\ rw_ctx = ZeroCtx
    /\ rw_com = 0
    /\ rw_flags = NoFlags
    /\ rw_send_cc = FALSE
    /\ rw_tx = <<>>
    /\ rw_rc = "none"
    /\ rw_owed = FALSE
    /\ rw_trig = FALSE
    /\ rw_last_rx = <<>>
    /\ rw_prev_ctx = ZeroCtx
    /\ rw_rxn = 0
    /\ rw_keyn = 0
    /\ rw_hist = NoHist
    /\ rw_res = NoRes
    /\ rw_fresh = FALSE
    /\ rw_state_com = 0

(***************************************************************************)
(* lib/cb_protocol.c and libcbuart/cb_protocol.c: the charge control word  *)
(***************************************************************************)

cb_proto_get_target_pwm_active(cc) == DATA_GET_BITS(cc, 63, 1)

cb_proto_set_pwm_active(cc, active) == DATA_SET_BITS(cc, 63, 1, BoolToInt(active))

cb_proto_get_target_duty_cycle(cc) == DATA_GET_BITS(cc, 48, 10)

\* a setter that stores the argument without the clamp
cb_proto_set_duty_cycle_NoClamp(cc, duty_cycle) ==
    DATA_SET_BITS(cc, 48, 10, duty_cycle)

\* lib/cb_protocol.c: clamps to 1000 first
cb_proto_set_duty_cycle(cc, duty_cycle) ==
    DATA_SET_BITS(cc, 48, 10, IF duty_cycle > DUTY_MAX THEN DUTY_MAX ELSE duty_cycle)

\* libcbuart/cb_protocol.c: stores the low ten bits of the argument as is
libcbuart_cb_proto_set_duty_cycle(cc, duty_cycle) ==
    DATA_SET_BITS(cc, 48, 10, duty_cycle)

cb_proto_contactorN_get_target_state(cc, contactor) ==
    DATA_GET_BITS(cc, 40 + contactor, 1)

cb_proto_contactorN_set_state(cc, contactor, active) ==
    DATA_SET_BITS(cc, 40 + contactor, 1, BoolToInt(active))

cb_proto_get_target_ccs_ready(cc) == DATA_GET_BITS(cc, 60, 4)

cb_proto_set_ccs_ready(cc, ready) ==
    DATA_SET_BITS(cc, 60, 4, IF ready THEN CC2_CCS_READY ELSE CC2_CCS_NOT_READY)

cb_proto_set_estop(cc, estop) ==
    DATA_SET_BITS(cc, 60, 4, IF estop THEN CC2_CCS_EMERGENCY_STOP ELSE CC2_CCS_NOT_READY)

(***************************************************************************)
(* The setter specification: a program linked against one of the two       *)
(* libraries calls the setters on a zero-initialised safety_controller.    *)
(***************************************************************************)

\* words the caller's charge_control may hold when a setter is called
CtlWords == {ZeroWord, <<65535, 65535, 65535, 65535>>, <<42405, 23130, 4660, 22136>>}

CtlInit ==
    /\ impl \in {"lib", "libcbuart"}
    /\ charge_control \in CtlWords
    /\ ctl_op = [name |-> "none", arg |-> 0, idx |-> 0]
    /\ ctl_prev = ZeroWord
    /\ ctl_n = 0

CtlCall(name, arg, idx, new) ==
    /\ ctl_n < MaxCtlOps
    /\ ctl_n' = ctl_n + 1
    /\ ctl_op' = [name |-> name, arg |-> arg, idx |-> idx]
    /\ ctl_prev' = charge_control
    /\ charge_control' = new
    /\ UNCHANGED <<impl, notCtl>>

SetPwmActive ==
    \E b \in BOOLEAN :
        CtlCall("set_pwm_active", BoolToInt(b), 0, cb_proto_set_pwm_active(charge_control, b))

SetDutyCycle ==
    /\ impl = "lib"
    /\ \E x \in DutyInputs :
        CtlCall("set_duty_cycle", x, 0, cb_proto_set_duty_cycle(charge_control, x))

SetDutyCycleLibcbuart ==
    /\ impl = "libcbuart"
    /\ \E x \in DutyInputs :
        CtlCall("set_duty_cycle", x, 0, libcbuart_cb_proto_set_duty_cycle(charge_control, x))

ContactorSetState ==
    \E i \in 0 .. (CB_PROTO_MAX_CONTACTORS - 1), b \in BOOLEAN :
        CtlCall("contactorN_set_state", BoolToInt(b), i,
                cb_proto_contactorN_set_state(charge_control, i, b))

SetCcsReady ==
    /\ impl = "lib"
    /\ \E b \in BOOLEAN :
        CtlCall("set_ccs_ready", BoolToInt(b), 0, cb_proto_set_ccs_ready(charge_control, b))

SetEstop ==
    /\ impl = "lib"
    /\ \E b \in BOOLEAN :
        CtlCall("set_estop", BoolToInt(b), 0, cb_proto_set_estop(charge_control, b))

CtlNext ==
    \/ SetPwmActive
    \/ SetDutyCycle
    \/ SetDutyCycleLibcbuart
    \/ ContactorSetState
    \/ SetCcsReady
    \/ SetEstop

InitCtl == CtlInit /\ WrIdle /\ SyIdle /\ UpIdle /\ RwIdle /\ FrIdle /\ PkIdle /\ GpIdle /\ PbIdle /\ PtIdle /\ KyIdle /\ TmIdle

SpecCtl == InitCtl /\ [][CtlNext]_vars

(***************************************************************************)
(* libcbuart/ra_protocol.c (src/ra_protocol.c holds the same code):        *)
(* bootloader packets                                                      *)
(***************************************************************************)

SOH == 1
SOD == 129
ETX == 3
RES_ERR_MASK == 128
INQUIRY_CMD == 0
ERASE_CMD == 18
WRITE_CMD == 19
READ_CMD == 21
BAUDRATE_SETTING_CMD == 52
SIGNATURE_REQUEST_CMD == 58
AREA_INFORMATION_CMD == 59
SIGNATURE_RSP_LENGTH == 13
AREA_INFO_RSP_LENGTH == 18
STATUSCODE_OK == 0
STATUSCODE_PACKET_ERROR == 193
STATUSCODE_WRITE_ERROR == 226
STATUS_RSP_LENGTH == 2
RWE_CMD_LENGTH == 9
MAX_DATA_PACKET_PAYLOAD == 1024

\* sum of s[lo..hi], by halving (packets are up to 1030 bytes long)
RECURSIVE SumRange(_, _, _)
SumRange(s, lo, hi) ==
    IF lo > hi THEN 0
    ELSE IF lo = hi THEN s[lo]
    ELSE LET mid == (lo + hi) \div 2
         IN  SumRange(s, lo, mid) + SumRange(s, mid + 1, hi)

\* the one's complement of the byte sum
ra_update_checksum_OnesComplement(buf) == 255 - (SumRange(buf, 1, Len(buf)) % 256)

\* ra_update_checksum(buf, len, &sum): the uint8_t sum of the bytes, then
\* its two's complement
ra_update_checksum(buf) == (256 - (SumRange(buf, 1, Len(buf)) % 256)) % 256

ra_is_checksum_invalid(buf, sum) == ra_update_checksum(buf) # sum

\* 32-bit addresses as <<hi, lo>>; n is below 2^31
AddU32(a, n) ==
    LET lo == a[2] + (n % 65536)
        hi == a[1] + (n \div 65536) + (lo \div 65536)
    IN  <<hi % 65536, lo % 65536>>

SubOneU32(a) ==
    IF a[2] > 0 THEN <<a[1], a[2] - 1>>
    ELSE <<(a[1] + 65535) % 65536, 65535>>

\* htobe32
BytesBE32(a) == <<a[1] \div 256, a[1] % 256, a[2] \div 256, a[2] % 256>>

\* an end address one past the last byte
EndAddr_OnePast(start_addr, len) == AddU32(start_addr, len)

\* uint32_t end_addr = start_addr + len - 1 (ra_read, ra_write)
EndAddr(start_addr, len) ==
    IF len = 0 THEN SubOneU32(start_addr) ELSE AddU32(start_addr, len - 1)

\* the packet check without the checksum
ra_is_invalid_status_pkt_NoSum(rsp, cmd) ==
    \/ rsp[1] # SOD
    \/ rsp[7] # ETX
    \/ rsp[2] * 256 + rsp[3] # STATUS_RSP_LENGTH
    \/ (rsp[4] # cmd /\ rsp[4] # cmd + RES_ERR_MASK)

\* struct status_rsp on the wire: sod, lnh, lnl, res, sts, sum, etx
ra_is_invalid_status_pkt(rsp, cmd) ==
    \/ rsp[1] # SOD
    \/ rsp[7] # ETX
    \/ rsp[2] * 256 + rsp[3] # STATUS_RSP_LENGTH
    \/ (rsp[4] # cmd /\ rsp[4] # cmd + RES_ERR_MASK)
    \/ ra_is_checksum_invalid(SubSeq(rsp, 2, 5), rsp[6])

\* a caller that looks at the packet and at RES, but not at STS
StatusAccepted_IgnoresSts(rsp, cmd) ==
    /\ ~ra_is_invalid_status_pkt(rsp, cmd)
    /\ rsp[4] = cmd

\* what a caller makes of the seven bytes read as the response to `cmd`:
\* the check of the packet, then of RES and STS
StatusAccepted(rsp, cmd) ==
    /\ ~ra_is_invalid_status_pkt(rsp, cmd)
    /\ rsp[4] = cmd
    /\ rsp[5] = STATUSCODE_OK

\* a well-formed status response
StatusPkt(res, sts) ==
    <<SOD, 0, STATUS_RSP_LENGTH, res, sts,
      ra_update_checksum(<<0, STATUS_RSP_LENGTH, res, sts>>), ETX>>

\* the seven-byte responses the MCU side is let to give to `cmd`: the OK
\* status, error statuses, and packets broken in one place each
StatusResponses(cmd) ==
    LET ok == StatusPkt(cmd, STATUSCODE_OK)
    IN  { ok,
          StatusPkt(cmd + RES_ERR_MASK, STATUSCODE_WRITE_ERROR),
          StatusPkt(cmd + RES_ERR_MASK, STATUSCODE_OK),
          StatusPkt(cmd, STATUSCODE_PACKET_ERROR),
          StatusPkt(READ_CMD, STATUSCODE_OK),
          [ok EXCEPT ![1] = SOH],
          [ok EXCEPT ![7] = 0],
          [ok EXCEPT ![3] = 3],
          [ok EXCEPT ![6] = (ok[6] + 1) % 256] }

\* the rwe command packet: soh, length, com, sad, ead, sum, etx
RweCmdPkt(com, start_addr, end_addr) ==
    LET body == <<0, RWE_CMD_LENGTH, com>> \o BytesBE32(start_addr) \o BytesBE32(end_addr)
    IN  <<SOH>> \o body \o <<ra_update_checksum(body), ETX>>

\* the data packet ra_write_data builds around `payload`
DataPkt(payload) ==
    LET n    == Len(payload) + 1
        body == <<n \div 256, n % 256, WRITE_CMD>> \o payload
    IN  <<SOD>> \o body \o <<ra_update_checksum(body), ETX>>

\* the payload bytes of a data packet
DataPktPayload(pkt) == SubSeq(pkt, 5, Len(pkt) - 2)

(***************************************************************************)
(* ra_write(uart, start_addr, buffer, len)                                 *)
(***************************************************************************)

\* the caller's buffer: byte i (0-based) of the firmware image
BufferByte(i) == (i * 7 + (i \div 256) + 3) % 256

Buffer(len) == [i \in 1 .. len |-> BufferByte(i - 1)]

\* the lengths and start addresses ra_write is called with
WriteLens == {0, 1, 2, 1023, 1024, 1025, 2048, 2049, 2600}

WriteStarts == {<<0, 0>>, <<2048, 0>>, <<65535, 64512>>}

WrInit ==
    /\ wr_pc = "cmd"
    /\ wr_start \in WriteStarts
    /\ wr_len \in WriteLens
    /\ wr_already = 0
    /\ wr_rv = "none"
    /\ wr_tx = <<>>
    /\ wr_oks = 0
    /\ wr_bad = FALSE

\* one status-checked exchange: write `pkt` (the write may fail), read
\* seven bytes (the read may time out) and check them against WRITE_CMD.
\* `next` is where ra_write goes on when the exchange succeeded.
WrExchange(pkt, written, next) ==
    \/ \* uart_write_drain failed: return c
       /\ wr_pc' = "done"
       /\ wr_rv' = -1
       /\ UNCHANGED <<wr_tx, wr_oks, wr_bad, wr_already>>
    \/ \* uart_read_with_timeout failed: return c
       /\ wr_tx' = Append(wr_tx, pkt)
       /\ wr_pc' = "done"
       /\ wr_rv' = -1
       /\ wr_bad' = TRUE
       /\ UNCHANGED <<wr_oks, wr_already>>
    \/ \E rsp \in StatusResponses(WRITE_CMD) :
          /\ wr_tx' = Append(wr_tx, pkt)
          /\ wr_bad' = (wr_bad \/ rsp # StatusPkt(WRITE_CMD, STATUSCODE_OK))
          /\ IF StatusAccepted(rsp, WRITE_CMD)
             THEN /\ wr_oks' = wr_oks + 1
                  /\ wr_already' = wr_already + written
                  /\ wr_pc' = next
                  /\ UNCHANGED wr_rv
             ELSE /\ wr_pc' = "done"
                  /\ wr_rv' = -1
                  /\ UNCHANGED <<wr_oks, wr_already>>

\* rv = ra_rwe_cmd(uart, RWE_WRITE, start_addr, end_addr); if (rv) return rv;
WrRweCmd ==
    /\ wr_pc = "cmd"
    /\ WrExchange(RweCmdPkt(WRITE_CMD, wr_start, EndAddr(wr_start, wr_len)), 0, "data")
    /\ UNCHANGED <<wr_start, wr_len, notWr>>

\* size_t len_for_this_round = min(len - already_written, MAX_DATA_PACKET_PAYLOAD)
LenForThisRound(len, already_written) == Min(len - already_written, MAX_DATA_PACKET_PAYLOAD)

\* one round of the loop: ra_write_data(uart, &buffer[already_written], len_for_this_round)
WrWriteData ==
    /\ wr_pc = "data"
    /\ wr_already < wr_len
    /\ LET n == LenForThisRound(wr_len, wr_already)
       IN  WrExchange(DataPkt(SubSeq(Buffer(wr_len), wr_already + 1, wr_already + n)), n, "data")
    /\ UNCHANGED <<wr_start, wr_len, notWr>>

\* the loop ends: return 0
WrReturn ==
    /\ wr_pc = "data"
    /\ ~(wr_already < wr_len)
    /\ wr_pc' = "done"
    /\ wr_rv' = 0
    /\ UNCHANGED <<wr_start, wr_len, wr_already, wr_tx, wr_oks, wr_bad, notWr>>

WrNext ==
    \/ WrRweCmd
    \/ WrWriteData
    \/ WrReturn

InitWrite == WrInit /\ CtlIdle /\ SyIdle /\ UpIdle /\ RwIdle /\ FrIdle /\ PkIdle /\ GpIdle /\ PbIdle /\ PtIdle /\ KyIdle /\ TmIdle

SpecWrite == InitWrite /\ [][WrNext]_vars

(***************************************************************************)
(* lib/cb_uart.c: the 12-byte operational frame and cb_uart_recv_and_sync  *)
(***************************************************************************)

CB_SOF == 165
CB_EOF == 3
CB_UART_MAX_SYNC_TRIALS == 3
FRAME_SIZE == 12

COM_DIGITAL_OUTPUT == 0
COM_CHARGE_CONTROL == 6
COM_CHARGE_STATE == 7
COM_PT1000_STATE == 8
COM_FW_VERSION == 10
COM_GIT_HASH == 11
COM_ERROR_MESSAGE == 14
COM_CHARGE_STATE_2 == 16
COM_CHARGE_CONTROL_2 == 17
COM_MAX == 20
COM_INQUIRY == 255

\* exclusive or of two n-bit numbers
RECURSIVE XorBits(_, _, _)
XorBits(a, b, n) ==
    IF n = 0 THEN 0
    ELSE ((a + b) % 2) + 2 * XorBits(a \div 2, b \div 2, n - 1)

\* CRC-8/J1850: polynomial 0x1D, init 0xFF, xor-out 0xFF, not reflected
RECURSIVE Crc8Shift(_, _)
Crc8Shift(crc, n) ==
    IF n = 0 THEN crc
    ELSE Crc8Shift(IF crc >= 128 THEN XorBits((crc * 2) % 256, 29, 8)
                                 ELSE (crc * 2) % 256, n - 1)

\* the 256-entry table of the byte-wise implementation
Crc8Table == [b \in 0 .. 255 |-> Crc8Shift(b, 8)]

RECURSIVE Crc8Fold(_, _, _)
Crc8Fold(buf, i, crc) ==
    IF i > Len(buf) THEN crc
    ELSE Crc8Fold(buf, i + 1, Crc8Table[XorBits(crc, buf[i], 8)])

crc8_j1850(buf) == XorBits(Crc8Fold(buf, 1, 255), 255, 8)

\* htobe64 / be64toh on a word of four 16-bit limbs
BytesBE64_HostOrder(data) ==
    <<data[4] % 256, data[4] \div 256, data[3] % 256, data[3] \div 256,
      data[2] % 256, data[2] \div 256, data[1] % 256, data[1] \div 256>>

BytesBE64(data) ==
    <<data[1] \div 256, data[1] % 256, data[2] \div 256, data[2] % 256,
      data[3] \div 256, data[3] % 256, data[4] \div 256, data[4] % 256>>

WordBE64(b) ==
    <<b[1] * 256 + b[2], b[3] * 256 + b[4], b[5] * 256 + b[6], b[7] * 256 + b[8]>>

\* the frame cb_uart_send puts on the line
Frame(com, data) ==
    <<CB_SOF, com>> \o BytesBE64(data)
        \o <<crc8_j1850(<<com>> \o BytesBE64(data)), CB_EOF>>

FrameLooksValid_NoEof(f) ==
    /\ f[1] = CB_SOF
    /\ crc8_j1850(SubSeq(f, 2, 10)) = f[11]

\* the checks of cb_uart_recv on the twelve bytes read
FrameLooksValid(f) ==
    /\ f[1] = CB_SOF
    /\ f[12] = CB_EOF
    /\ crc8_j1850(SubSeq(f, 2, 10)) = f[11]

FrameCom(f) == f[2]
FrameData(f) == WordBE64(SubSeq(f, 3, 10))


\* the frames the safety controller sends, in order
SyncFrame(i) ==
    CASE i % 4 = 1 -> Frame(COM_FW_VERSION, <<1, 2, 33280 + i, 0>>)
      [] i % 4 = 2 -> Frame(COM_CHARGE_STATE, <<4096 + i, 0, 0, 165>>)
      [] i % 4 = 3 -> Frame(COM_PT1000_STATE, <<3, 3, 3, i>>)
      [] OTHER     -> Frame(COM_CHARGE_STATE_2, <<i, 0, 42240, 3>>)

RECURSIVE SyncFrames(_)
SyncFrames(n) == IF n = 0 THEN <<>> ELSE SyncFrames(n - 1) \o SyncFrame(n)

\* longest garbage prefix (one byte short of a frame)
MaxGarbage == FRAME_SIZE - 1

\* 0..MaxGarbage bytes of garbage, then the frames
SyncStreams ==
    { [i \in 1 .. n |-> g] \o SyncFrames(MaxSyncFrames) :
        n \in 0 .. MaxGarbage, g \in {0, CB_SOF} }

SyInit ==
    /\ sy_stream \in SyncStreams
    /\ sy_pos = 0
    /\ sy_pc = "idle"
    /\ sy_trial = 0
    /\ sy_rv = "none"
    /\ sy_com = "unset"
    /\ sy_data = "unset"
    /\ sy_bad = 0
    /\ sy_failed = 0
    /\ sy_flushed = 0
    /\ sy_out = <<>>
    /\ sy_calls = 0

SyReturn(rv, frame) ==
    /\ sy_pc' = "returned"
    /\ sy_rv' = rv
    /\ sy_out' = Append(sy_out, [rv |-> rv, frame |-> frame])

\* one pass from the label retry: trial--, cb_uart_recv, and on EBADMSG the
\* flush and the decision to go round again.  Between the twelfth byte read
\* and the flush any number of further bytes may have reached the queue.
SyncAttempt(trial_in, bad_in, flushed_in) ==
    LET trial == trial_in - 1
        left  == Len(sy_stream) - sy_pos
        f     == SubSeq(sy_stream, sy_pos + 1, sy_pos + FRAME_SIZE)
    IN
    /\ sy_trial' = trial
    /\ \/ \* uart_read_with_timeout fails (I/O error, or the line went quiet)
          /\ sy_pos' = IF left < FRAME_SIZE THEN Len(sy_stream) ELSE sy_pos
          /\ sy_bad' = bad_in
          /\ sy_flushed' = flushed_in
          /\ SyReturn(-1, 0)
          /\ UNCHANGED <<sy_com, sy_data, sy_failed>>
       \/ \* twelve bytes read, SOF, EOF and CRC are fine
          /\ left >= FRAME_SIZE
          /\ FrameLooksValid(f)
          /\ sy_pos' = sy_pos + FRAME_SIZE
          /\ sy_com' = FrameCom(f)
          /\ sy_data' = FrameData(f)
          /\ sy_bad' = bad_in
          /\ sy_flushed' = flushed_in
          /\ SyReturn(0, sy_pos + 1)
          /\ UNCHANGED sy_failed
       \/ \* EBADMSG and uart_flush_input fails
          /\ left >= FRAME_SIZE
          /\ ~FrameLooksValid(f)
          /\ sy_pos' = sy_pos + FRAME_SIZE
          /\ sy_bad' = bad_in + 1
          /\ sy_failed' = sy_failed + 1
          /\ sy_flushed' = flushed_in
          /\ SyReturn(-1, 0)
          /\ UNCHANGED <<sy_com, sy_data>>
       \/ \* EBADMSG and uart_flush_input discards the k bytes queued: rv = 0
          /\ left >= FRAME_SIZE
          /\ ~FrameLooksValid(f)
          /\ \E k \in 0 .. (left - FRAME_SIZE) : sy_pos' = sy_pos + FRAME_SIZE + k
          /\ sy_bad' = bad_in + 1
          /\ sy_failed' = sy_failed + 1
          /\ sy_flushed' = flushed_in + 1
          /\ IF trial # 0
             THEN /\ sy_pc' = "retry"
                  /\ UNCHANGED <<sy_rv, sy_out>>
             ELSE SyReturn(0, 0)
          /\ UNCHANGED <<sy_com, sy_data>>

\* a call of cb_uart_recv_and_sync, up to its first return or goto retry
SyncCall ==
    /\ sy_pc \in {"idle", "returned"}
    /\ sy_calls < MaxSyncCalls
    /\ sy_calls' = sy_calls + 1
    /\ SyncAttempt(CB_UART_MAX_SYNC_TRIALS, 0, 0)
    /\ UNCHANGED <<sy_stream, notSy>>

\* the next pass after goto retry
SyncRetry ==
    /\ sy_pc = "retry"
    /\ SyncAttempt(sy_trial, sy_bad, sy_flushed)
    /\ UNCHANGED <<sy_stream, sy_calls, notSy>>

SyNext ==
    \/ SyncCall
    \/ SyncRetry

InitSync == SyInit /\ CtlIdle /\ WrIdle /\ UpIdle /\ RwIdle /\ FrIdle /\ PkIdle /\ GpIdle /\ PbIdle /\ PtIdle /\ KyIdle /\ TmIdle

SpecSync == InitSync /\ [][SyNext]_vars


(***************************************************************************)
(* lib/cb_uart.c: one frame from cb_uart_send over the line to             *)
(* cb_uart_recv                                                            *)
(***************************************************************************)

\* enum cb_uart_com, and two values the enum does not name
DefinedComs == (0 .. 11) \cup {COM_ERROR_MESSAGE} \cup (16 .. 19) \cup {COM_INQUIRY}
FrComs == DefinedComs \cup {12, COM_MAX}

\* payloads handed to cb_uart_send
FrWords == CtlWords \cup {<<0, 0, 0, 1>>}

\* what a disturbed line turns a byte into
LineBytes == {0, CB_EOF, CB_SOF}

\* the caller's com and data hold some earlier value when cb_uart_recv is called
FrInit ==
    /\ fr_pc = "idle"
    /\ fr_com = 0
    /\ fr_data = ZeroWord
    /\ fr_line = <<>>
    /\ fr_touched = FALSE
    /\ fr_rv = "none"
    /\ fr_errno = "none"
    /\ fr_out_com \in {COM_DIGITAL_OUTPUT, COM_INQUIRY}
    /\ fr_out_data \in {ZeroWord, <<65535, 65535, 65535, 65535>>}
    /\ fr_prev_com = fr_out_com
    /\ fr_prev_data = fr_out_data

\* cb_uart_send: the frame goes out unless uart_write_drain fails
cb_uart_send ==
    /\ fr_pc = "idle"
    /\ \E com \in FrComs, data \in FrWords :
          /\ fr_com' = com
          /\ fr_data' = data
          /\ \/ fr_line' = Frame(com % 256, data)
             \/ fr_line' = <<>>
    /\ fr_pc' = "sent"
    /\ UNCHANGED <<fr_touched, fr_rv, fr_errno, fr_out_com, fr_out_data,
                   fr_prev_com, fr_prev_data, notFr>>

\* the line changes one byte of the frame
LineDisturbs ==
    /\ fr_pc = "sent"
    /\ ~fr_touched
    /\ fr_line # <<>>
    /\ \E p \in 1 .. FRAME_SIZE, v \in LineBytes :
          /\ v # fr_line[p]
          /\ fr_line' = [fr_line EXCEPT ![p] = v]
    /\ fr_touched' = TRUE
    /\ UNCHANGED <<fr_pc, fr_com, fr_data, fr_rv, fr_errno, fr_out_com,
                   fr_out_data, fr_prev_com, fr_prev_data, notFr>>

\* cb_uart_recv with both output pointers given
cb_uart_recv ==
    /\ fr_pc = "sent"
    /\ fr_pc' = "received"
    /\ fr_prev_com' = fr_out_com
    /\ fr_prev_data' = fr_out_data
    /\ \/ \* uart_read_with_timeout fails: nothing came, or an I/O error
          /\ fr_rv' = -1
          /\ fr_errno' = "io"
          /\ UNCHANGED <<fr_out_com, fr_out_data>>
       \/ \* twelve bytes read and one of the checks fails
          /\ fr_line # <<>>
          /\ ~FrameLooksValid(fr_line)
          /\ fr_rv' = -1
          /\ fr_errno' = "EBADMSG"
          /\ UNCHANGED <<fr_out_com, fr_out_data>>
       \/ \* twelve bytes read, the frame looks valid
          /\ fr_line # <<>>
          /\ FrameLooksValid(fr_line)
          /\ fr_rv' = 0
          /\ fr_out_com' = FrameCom(fr_line)
          /\ fr_out_data' = FrameData(fr_line)
          /\ UNCHANGED fr_errno
    /\ UNCHANGED <<fr_com, fr_data, fr_line, fr_touched, notFr>>

FrNext ==
    \/ cb_uart_send
    \/ LineDisturbs
    \/ cb_uart_recv

InitFrame == FrInit /\ CtlIdle /\ WrIdle /\ SyIdle /\ UpIdle /\ RwIdle /\ PkIdle /\ GpIdle /\ PbIdle /\ PtIdle /\ KyIdle /\ TmIdle

SpecFrame == InitFrame /\ [][FrNext]_vars

(***************************************************************************)
(* ra_comm_setup, ra_inquiry, ra_set_baudrate and ra-update's              *)
(* setup_uart_communication                                                *)
(***************************************************************************)

ACK_PATTERN == 0
BOOT_CODE_PATTERN == 195

LOW_PULSE_PATTERN == <<0>>
GENERIC_CODE_PATTERN == <<85>>

\* entries of up_log
Op(op, val) == [op |-> op, val |-> val]

\* what ra_comm_setup may do and return: the operations logged and rv
CommSetupOutcomes ==
    LET fl  == <<Op("flush", <<>>)>>
        w1  == fl \o <<Op("write", LOW_PULSE_PATTERN)>>
        w2  == w1 \o <<Op("write", LOW_PULSE_PATTERN)>>
        r1  == w2 \o <<Op("read", <<ACK_PATTERN>>)>>
        w3  == r1 \o <<Op("write", GENERIC_CODE_PATTERN)>>
    IN  \* usleep(STARTUP_DELAY) or uart_flush_input fails: return rv
        { [log |-> <<>>, rv |-> -1],
          [log |-> <<Op("flush_failed", <<>>)>>, rv |-> -1] }
        \cup
        \* a uart_write_drain fails: `return rv` with rv == 0
        { [log |-> fl \o <<Op("write_failed", LOW_PULSE_PATTERN)>>, rv |-> 0],
          [log |-> w1 \o <<Op("write_failed", LOW_PULSE_PATTERN)>>, rv |-> 0],
          [log |-> r1 \o <<Op("write_failed", GENERIC_CODE_PATTERN)>>, rv |-> 0] }
        \cup
        \* usleep(LOW_PULSE_DELAY) fails, a read times out
        { [log |-> w1, rv |-> -1],
          [log |-> w2 \o <<Op("read_failed", <<>>)>>, rv |-> -1],
          [log |-> w3 \o <<Op("read_failed", <<>>)>>, rv |-> -1] }
        \cup
        \* the byte read is not the ACK, or not the boot code
        { [log |-> w2 \o <<Op("read", <<b>>)>>, rv |-> -1] :
            b \in {BOOT_CODE_PATTERN, 255} }
        \cup
        { [log |-> w3 \o <<Op("read", <<b>>)>>, rv |-> -1] :
            b \in {ACK_PATTERN, 255} }
        \cup
        { [log |-> w3 \o <<Op("read", <<BOOT_CODE_PATTERN>>)>>, rv |-> 0] }

InquiryCmdPkt == <<SOH, 0, 1, INQUIRY_CMD, 255, ETX>>

\* 32-bit value of a baud rate as <<hi, lo>>
U32(n) == <<n \div 65536, n % 65536>>

BaudrateCmdPkt(baudrate) ==
    LET body == <<0, 5, BAUDRATE_SETTING_CMD>> \o BytesBE32(U32(baudrate))
    IN  <<SOH>> \o body \o <<ra_update_checksum(body), ETX>>

\* a command written and its seven-byte status read and checked, as
\* ra_inquiry and ra_set_baudrate do: the operations logged and rv
StatusExchangeOutcomes(pkt, cmd) ==
    { [log |-> <<Op("write_failed", pkt)>>, rv |-> -1],
      [log |-> <<Op("write", pkt), Op("read_failed", <<>>)>>, rv |-> -1] }
    \cup
    { [log |-> <<Op("write", pkt), Op("read", rsp)>>,
       rv  |-> IF StatusAccepted(rsp, cmd) THEN 0 ELSE -1] :
        rsp \in StatusResponses(cmd) }

ra_inquiry == StatusExchangeOutcomes(InquiryCmdPkt, INQUIRY_CMD)

ra_set_baudrate(baudrate) ==
    StatusExchangeOutcomes(BaudrateCmdPkt(baudrate), BAUDRATE_SETTING_CMD)

(***************************************************************************)
(* libcbuart/ra_protocol.c: one call of a bootloader function, with the    *)
(* UART operations it performs and the value it returns                    *)
(***************************************************************************)

\* outcomes carry the errno a function sets itself
PkOut(S) == { [log |-> o.log, rv |-> o.rv, errno |-> "unset"] : o \in S }

EFBIG == [log |-> <<>>, rv |-> -1, errno |-> "EFBIG"]

SignatureCmdPkt ==
    LET body == <<0, 1, SIGNATURE_REQUEST_CMD>>
    IN  <<SOH>> \o body \o <<ra_update_checksum(body), ETX>>

AreaInfoCmdPkt(num) ==
    LET body == <<0, 2, AREA_INFORMATION_CMD, num>>
    IN  <<SOH>> \o body \o <<ra_update_checksum(body), ETX>>

\* struct status_rsp status_rsp = { SOD, 0x00, 0x02, READ_CMD, STATUSCODE_OK, 0xe9, ETX }
ReadAckPkt == <<SOD, 0, 2, READ_CMD, STATUSCODE_OK, 233, ETX>>

\* a well-formed packet of the MCU: sod, length, res, payload, sum, etx
RspPkt(res, payload) ==
    LET n    == Len(payload) + 1
        body == <<n \div 256, n % 256, res>> \o payload
    IN  <<SOD>> \o body \o <<ra_update_checksum(body), ETX>>

\* what the MCU is let to answer to SIGNATURE_REQUEST or AREA_INFORMATION,
\* whose full response carries `n` bytes after RES
LongResponses(cmd, n) ==
    LET good == RspPkt(cmd, [i \in 1 .. n |-> (i * 17) % 256])
    IN  { good,
          [good EXCEPT ![Len(good) - 1] = (@ + 1) % 256],
          [good EXCEPT ![Len(good)] = 0],
          RspPkt(cmd + RES_ERR_MASK, [i \in 1 .. n |-> 0]),
          StatusPkt(cmd + RES_ERR_MASK, STATUSCODE_PACKET_ERROR),
          StatusPkt(cmd, STATUSCODE_OK) }

\* the check ra_get_signature and ra_get_area_info make on the full response
IsInvalidLongRsp(rsp, cmd, rsp_length) ==
    \/ rsp[1] # SOD
    \/ rsp[Len(rsp)] # ETX
    \/ rsp[2] * 256 + rsp[3] # rsp_length
    \/ (rsp[4] # cmd /\ rsp[4] # cmd + RES_ERR_MASK)
    \/ ra_is_checksum_invalid(SubSeq(rsp, 2, Len(rsp) - 2), rsp[Len(rsp) - 1])

\* ra_get_signature and ra_get_area_info: the command, the first seven
\* bytes of the response, and the remaining bytes unless those seven are a
\* status packet
LongExchangeOutcomes(pkt, cmd, rsp_length) ==
    { [log |-> <<Op("write_failed", pkt)>>, rv |-> -1],
      [log |-> <<Op("write", pkt), Op("read_failed", <<>>)>>, rv |-> -1] }
    \cup UNION {
        LET head == SubSeq(rsp, 1, STATUS_RSP_LENGTH + 5)
            rest == SubSeq(rsp, STATUS_RSP_LENGTH + 6, Len(rsp))
            sofar == <<Op("write", pkt), Op("read", head)>>
        IN  IF ~ra_is_invalid_status_pkt(head, cmd)
            THEN { [log |-> sofar, rv |-> -1] }
            ELSE { [log |-> sofar \o <<Op("read_failed", <<>>)>>, rv |-> -1] }
                 \cup IF Len(rsp) # rsp_length + 5 THEN {}
                      ELSE { [log |-> sofar \o <<Op("read", rest)>>,
                              rv  |-> IF IsInvalidLongRsp(rsp, cmd, rsp_length)
                                      THEN -1 ELSE 0] }
        : rsp \in LongResponses(cmd, rsp_length - 1) }

ra_get_signature ==
    LongExchangeOutcomes(SignatureCmdPkt, SIGNATURE_REQUEST_CMD, SIGNATURE_RSP_LENGTH)

ra_get_area_info(num) ==
    LongExchangeOutcomes(AreaInfoCmdPkt(num), AREA_INFORMATION_CMD, AREA_INFO_RSP_LENGTH)

\* ra_rwe_cmd: READ has no status response, the data follows directly
ra_rwe_cmd(com, start_addr, end_addr) ==
    LET pkt == RweCmdPkt(com, start_addr, end_addr)
    IN  IF com = READ_CMD
        THEN { [log |-> <<Op("write_failed", pkt)>>, rv |-> -1],
               [log |-> <<Op("write", pkt)>>, rv |-> 0] }
        ELSE StatusExchangeOutcomes(pkt, com)

\* ra_write_data: the safety check, then the data packet and its status
ra_write_data(payload) ==
    IF Len(payload) > MAX_DATA_PACKET_PAYLOAD
    THEN {EFBIG}
    ELSE PkOut(StatusExchangeOutcomes(DataPkt(payload), WRITE_CMD))

\* struct data_pkt was zeroed before the read
ByteAt(pkt, i) == IF i <= Len(pkt) THEN pkt[i] ELSE 0

ra_is_invalid_data_pkt(pkt, cmd) ==
    LET len == pkt[2] * 256 + pkt[3]
    IN  \/ pkt[1] # SOD
        \/ len = 0
        \/ len > MAX_DATA_PACKET_PAYLOAD + 1
        \/ (pkt[4] # cmd /\ pkt[4] # cmd + RES_ERR_MASK)
        \/ ByteAt(pkt, 4 + len + 1) # ETX
        \/ ra_is_checksum_invalid([i \in 1 .. len + 2 |-> ByteAt(pkt, i + 1)],
                                  ByteAt(pkt, 4 + len))

\* the bufsize + 6 bytes the read may deliver: the data packet asked for, one
\* with a wrong SUM, a wrong SOD or the error bit in RES, and a well-formed
\* packet that is one byte shorter, followed by the next byte on the line
DataResponses(bufsize) ==
    LET good == RspPkt(READ_CMD, Buffer(bufsize))
    IN  { good,
          [good EXCEPT ![Len(good) - 1] = (@ + 1) % 256],
          [good EXCEPT ![1] = SOH],
          RspPkt(READ_CMD + RES_ERR_MASK, Buffer(bufsize)) }
        \cup
        (IF bufsize >= 1
         THEN { RspPkt(READ_CMD, Buffer(bufsize - 1)) \o <<0>> }
         ELSE {})

\* ra_read_data(uart, buffer, bufsize, ack)
ra_read_data(bufsize, ack) ==
    IF bufsize > MAX_DATA_PACKET_PAYLOAD
    THEN {EFBIG}
    ELSE PkOut(
        { [log |-> <<Op("read_failed", <<>>)>>, rv |-> -1] }
        \cup UNION {
            IF ra_is_invalid_data_pkt(rsp, READ_CMD) \/ rsp[4] # READ_CMD
            THEN { [log |-> <<Op("read", rsp)>>, rv |-> -1] }
            ELSE IF ack
            THEN { [log |-> <<Op("read", rsp), Op("write_failed", ReadAckPkt)>>, rv |-> -1],
                   [log |-> <<Op("read", rsp), Op("write", ReadAckPkt)>>, rv |-> 0] }
            ELSE { [log |-> <<Op("read", rsp)>>, rv |-> 0] }
            : rsp \in DataResponses(bufsize) })

\* ra_read without its own check of len
ra_read_NoLimit(start_addr, len) ==
    UNION {
        IF o1.rv # 0 THEN {o1}
        ELSE { [log |-> o1.log \o o2.log, rv |-> o2.rv, errno |-> o2.errno] :
                 o2 \in ra_read_data(len, FALSE) }
        : o1 \in PkOut(ra_rwe_cmd(READ_CMD, start_addr, EndAddr(start_addr, len))) }

\* ra_read(uart, buffer, start_addr, len)
ra_read(start_addr, len) ==
    IF len > MAX_DATA_PACKET_PAYLOAD
    THEN {EFBIG}
    ELSE UNION {
        IF o1.rv # 0 THEN {o1}
        ELSE { [log |-> o1.log \o o2.log, rv |-> o2.rv, errno |-> o2.errno] :
                 o2 \in ra_read_data(len, FALSE) }
        : o1 \in PkOut(ra_rwe_cmd(READ_CMD, start_addr, EndAddr(start_addr, len))) }

\* the arguments the functions are called with
Baudrates == {9600, 115200, 1000000}
AreaNums == 0 .. 2
RweLens == {1, 1024, 4096}
DataLens == {0, 1, 2, 255, 1024, 1025}
ReadLens == {1, 2, 1024, 1025, 2048}

PkInit ==
    /\ pk_pc = "idle"
    /\ pk_ready \in BOOLEAN
    /\ pk_call = NoCall
    /\ pk_log = <<>>
    /\ pk_rv = "none"
    /\ pk_errno = "unset"

PkCall(call, outcomes) ==
    /\ pk_pc' = "returned"
    /\ pk_call' = call
    /\ \E o \in outcomes :
          /\ pk_log' = o.log
          /\ pk_rv' = o.rv
          /\ pk_errno' = o.errno
    /\ UNCHANGED <<pk_ready, notPk>>

InquiryCall == [NoCall EXCEPT !.fn = "ra_inquiry", !.cmd = INQUIRY_CMD]
InquiryOutcomes == PkOut(ra_inquiry)

PkInquiry ==
    /\ pk_pc = "idle"
    /\ PkCall(InquiryCall, InquiryOutcomes)

PkSetBaudrate ==
    /\ pk_pc = "idle"
    /\ \E b \in Baudrates :
           PkCall([NoCall EXCEPT !.fn = "ra_set_baudrate", !.cmd = BAUDRATE_SETTING_CMD, !.n = b],
                  PkOut(ra_set_baudrate(b)))

SignatureCall == [NoCall EXCEPT !.fn = "ra_get_signature", !.cmd = SIGNATURE_REQUEST_CMD]
SignatureOutcomes == PkOut(ra_get_signature)

PkGetSignature ==
    /\ pk_pc = "idle"
    /\ PkCall(SignatureCall, SignatureOutcomes)

PkGetAreaInfo ==
    /\ pk_pc = "idle"
    /\ \E num \in AreaNums :
           PkCall([NoCall EXCEPT !.fn = "ra_get_area_info", !.cmd = AREA_INFORMATION_CMD, !.n = num],
                  PkOut(ra_get_area_info(num)))

PkRweCmd ==
    /\ pk_pc = "idle"
    /\ \E com \in {ERASE_CMD, WRITE_CMD, READ_CMD}, a \in WriteStarts, n \in RweLens :
           PkCall([NoCall EXCEPT !.fn = "ra_rwe_cmd", !.cmd = com, !.addr = a, !.n = n],
                  PkOut(ra_rwe_cmd(com, a, EndAddr(a, n))))

PkWriteData ==
    /\ pk_pc = "idle"
    /\ \E n \in DataLens :
           PkCall([NoCall EXCEPT !.fn = "ra_write_data", !.cmd = WRITE_CMD, !.n = n],
                  ra_write_data(Buffer(n)))

PkReadData ==
    /\ pk_pc = "idle"
    /\ \E n \in ReadLens, ack \in BOOLEAN :
           PkCall([NoCall EXCEPT !.fn = "ra_read_data", !.cmd = READ_CMD, !.n = n, !.ack = ack],
                  ra_read_data(n, ack))

PkRead ==
    /\ pk_pc = "idle"
    /\ \E a \in WriteStarts, n \in ReadLens :
           PkCall([NoCall EXCEPT !.fn = "ra_read", !.cmd = READ_CMD, !.addr = a, !.n = n],
                  ra_read(a, n))

PkNext ==
    \/ PkInquiry
    \/ PkSetBaudrate
    \/ PkGetSignature
    \/ PkGetAreaInfo
    \/ PkRweCmd
    \/ PkWriteData
    \/ PkReadData
    \/ PkRead

InitPacket == PkInit /\ CtlIdle /\ WrIdle /\ SyIdle /\ UpIdle /\ RwIdle /\ FrIdle /\ GpIdle /\ PbIdle /\ PtIdle /\ KyIdle /\ TmIdle

SpecPacket == InitPacket /\ [][PkNext]_vars

(***************************************************************************)
(* ra-update.c: main                                                       *)
(***************************************************************************)

Cmds == {"CMD_RESET", "CMD_HOLD_IN_RESET", "CMD_BOOTLOADER", "CMD_FW_INFO",
         "CMD_CHIPINFO", "CMD_ERASE", "CMD_FLASH"}

\* the commands that talk to the bootloader
UsesBootloader(cmd, file) ==
    \/ cmd \in {"CMD_CHIPINFO", "CMD_ERASE", "CMD_FLASH"}
    \/ cmd = "CMD_FW_INFO" /\ ~file

\* flash_area_info as ra_get_chipinfo reports it
FlashArea == [size |-> 4096, write_unit_size |-> 128]

\* sizes of the firmware file tried
FileSizes == {0, 128, 200, 4096, 8192}

UpInit ==
    /\ up_cmd \in Cmds
    /\ up_file \in BOOLEAN
    \* parse_cli: flash needs the file name, fw_info may have one
    /\ up_cmd = "CMD_FLASH" => up_file
    /\ up_cmd \notin {"CMD_FLASH", "CMD_FW_INFO"} => ~up_file
    /\ up_pc = "gpio_init"
    /\ up_filesize = 0
    /\ up_gpio = FALSE
    /\ up_fd = FALSE
    /\ up_baud = 0
    /\ up_roe = FALSE
    /\ up_rc = "EXIT_FAILURE"
    /\ up_fail = "none"
    /\ up_setup = "none"
    /\ up_brt = "none"
    /\ up_log = <<>>

\* the label main jumps to when the step fails
ExitLabel_CloseOutOnly(step) == "close_out"

ExitLabel(step) ==
    IF step \in {"gpio_init", "fw_mmap", "reset", "hold_reset", "bootloader",
                 "print_info_file"}
    THEN "close_out"
    ELSE "reset_to_normal_out"

UpFail(step, log_add) ==
    /\ up_fail' = step
    /\ up_pc' = ExitLabel(step)
    /\ up_log' = up_log \o log_add
    /\ UNCHANGED <<up_rc, up_roe>>

UpGo(next, log_add) ==
    /\ up_pc' = next
    /\ up_log' = up_log \o log_add
    /\ UNCHANGED <<up_fail, up_rc, up_roe>>

\* the end of the switch: rc = EXIT_SUCCESS, then by reset_to_normal_on_exit
UpSwitchDone(roe, log_add) ==
    /\ up_rc' = "EXIT_SUCCESS"
    /\ up_roe' = roe
    /\ up_pc' = IF roe THEN "reset_to_normal_out" ELSE "close_out"
    /\ up_log' = up_log \o log_add
    /\ UNCHANGED up_fail

UpGpioInit ==
    /\ up_pc = "gpio_init"
    /\ IF up_cmd = "CMD_FW_INFO" /\ up_file
       THEN UpGo("fw_mmap", <<>>) /\ UNCHANGED up_gpio
       ELSE \/ UpGo("fw_mmap", <<Op("ra_gpio_init", <<>>)>>) /\ up_gpio' = TRUE
            \/ UpFail("gpio_init", <<>>) /\ UNCHANGED up_gpio
    /\ UNCHANGED <<up_cmd, up_file, up_filesize, up_fd, up_baud, up_setup, up_brt, notUp>>

UpFwMmap ==
    /\ up_pc = "fw_mmap"
    /\ IF ~up_file
       THEN UpGo("switch", <<>>) /\ UNCHANGED up_filesize
       ELSE \/ \E n \in FileSizes : UpGo("switch", <<>>) /\ up_filesize' = n
            \/ UpFail("fw_mmap", <<>>) /\ UNCHANGED up_filesize
    /\ UNCHANGED <<up_cmd, up_file, up_gpio, up_fd, up_baud, up_setup, up_brt, notUp>>

\* case CMD_RESET, CMD_HOLD_IN_RESET, CMD_BOOTLOADER
UpGpioCmd ==
    /\ up_pc = "switch"
    /\ up_cmd \in {"CMD_RESET", "CMD_HOLD_IN_RESET", "CMD_BOOTLOADER"}
    /\ LET fn   == CASE up_cmd = "CMD_RESET" -> "ra_reset_to_normal"
                     [] up_cmd = "CMD_HOLD_IN_RESET" -> "ra_hold_reset"
                     [] OTHER -> "ra_reset_to_bootloader"
           step == CASE up_cmd = "CMD_RESET" -> "reset"
                     [] up_cmd = "CMD_HOLD_IN_RESET" -> "hold_reset"
                     [] OTHER -> "bootloader"
       IN  \/ UpSwitchDone(FALSE, <<Op(fn, <<>>)>>)
           \/ UpFail(step, <<Op(fn, <<-1>>)>>)
    /\ UNCHANGED <<up_cmd, up_file, up_filesize, up_gpio, up_fd, up_baud, up_setup, up_brt, notUp>>

\* case CMD_FW_INFO with a file: the info block is taken from the file
UpFwInfoFile ==
    /\ up_pc = "switch"
    /\ up_cmd = "CMD_FW_INFO"
    /\ up_file
    /\ \/ UpSwitchDone(FALSE, <<>>)
       \/ UpFail("print_info_file", <<>>)
    /\ UNCHANGED <<up_cmd, up_file, up_filesize, up_gpio, up_fd, up_baud, up_setup, up_brt, notUp>>

\* setup_uart_communication: ra_reset_to_bootloader
UpSetupReset ==
    /\ up_pc = "switch"
    /\ UsesBootloader(up_cmd, up_file)
    /\ \/ UpGo("uart_open", <<Op("ra_reset_to_bootloader", <<>>)>>)
          /\ UNCHANGED up_setup
       \/ UpFail("setup", <<Op("ra_reset_to_bootloader", <<-1>>)>>)
          /\ up_setup' = "failed"
    /\ UNCHANGED <<up_cmd, up_file, up_filesize, up_gpio, up_fd, up_baud, up_brt, notUp>>

\* setup_uart_communication: uart_open(uart, uart_device, 9600)
UpUartOpen ==
    /\ up_pc = "uart_open"
    /\ \/ UpGo("comm_setup", <<Op("open", <<9600>>)>>)
          /\ up_fd' = TRUE
          /\ up_baud' = 9600
          /\ UNCHANGED up_setup
       \/ UpFail("setup", <<>>)
          /\ up_setup' = "failed"
          /\ UNCHANGED <<up_fd, up_baud>>
    /\ UNCHANGED <<up_cmd, up_file, up_filesize, up_gpio, up_brt, notUp>>

\* a caller that goes on to the inquiry whatever ra_comm_setup returned
UpCommSetup_IgnoresRv ==
    /\ up_pc = "comm_setup"
    /\ \E o \in CommSetupOutcomes :
          UpGo("inquiry1", o.log) /\ UNCHANGED up_setup
    /\ UNCHANGED <<up_cmd, up_file, up_filesize, up_gpio, up_fd, up_baud, up_brt, notUp>>

\* setup_uart_communication: ra_comm_setup
UpCommSetup ==
    /\ up_pc = "comm_setup"
    /\ \E o \in CommSetupOutcomes :
          IF o.rv = 0
          THEN UpGo("inquiry1", o.log) /\ UNCHANGED up_setup
          ELSE UpFail("setup", o.log) /\ up_setup' = "failed"
    /\ UNCHANGED <<up_cmd, up_file, up_filesize, up_gpio, up_fd, up_baud, up_brt, notUp>>

\* a caller that notes the failed inquiry and goes on to the baud rate change
UpInquiry1_GoesOn ==
    /\ up_pc = "inquiry1"
    /\ \E o \in ra_inquiry :
          /\ up_pc' = "set_baudrate"
          /\ up_log' = up_log \o o.log
          /\ up_fail' = IF o.rv = 0 THEN up_fail ELSE "setup"
          /\ up_setup' = IF o.rv = 0 THEN up_setup ELSE "failed"
          /\ UNCHANGED <<up_rc, up_roe>>
    /\ UNCHANGED <<up_cmd, up_file, up_filesize, up_gpio, up_fd, up_baud, up_brt, notUp>>

\* setup_uart_communication: ra_inquiry before the baud rate change
UpInquiry1 ==
    /\ up_pc = "inquiry1"
    /\ \E o \in ra_inquiry :
          IF o.rv = 0
          THEN UpGo("set_baudrate", o.log) /\ UNCHANGED up_setup
          ELSE UpFail("setup", o.log) /\ up_setup' = "failed"
    /\ UNCHANGED <<up_cmd, up_file, up_filesize, up_gpio, up_fd, up_baud, up_brt, notUp>>

\* setup_uart_communication: ra_set_baudrate(uart, 115200)
UpSetBaudrate ==
    /\ up_pc = "set_baudrate"
    /\ \E o \in ra_set_baudrate(115200) :
          IF o.rv = 0
          THEN UpGo("reconfigure", o.log) /\ up_brt' = "ok" /\ UNCHANGED up_setup
          ELSE UpFail("setup", o.log) /\ up_brt' = "failed" /\ up_setup' = "failed"
    /\ UNCHANGED <<up_cmd, up_file, up_filesize, up_gpio, up_fd, up_baud, notUp>>

\* setup_uart_communication: uart_reconfigure_baudrate(uart, 115200), usleep
UpReconfigure ==
    /\ up_pc = "reconfigure"
    /\ \/ UpGo("inquiry2", <<Op("baud", <<115200>>)>>)
          /\ up_baud' = 115200
          /\ UNCHANGED up_setup
       \/ UpFail("setup", <<Op("baud", <<-1>>)>>)
          /\ up_setup' = "failed"
          /\ UNCHANGED up_baud
    /\ UNCHANGED <<up_cmd, up_file, up_filesize, up_gpio, up_fd, up_brt, notUp>>

\* setup_uart_communication: ra_inquiry after the baud rate change
UpInquiry2 ==
    /\ up_pc = "inquiry2"
    /\ \E o \in ra_inquiry :
          IF o.rv = 0
          THEN UpGo("chipinfo", o.log) /\ up_setup' = "ok"
          ELSE UpFail("setup", o.log) /\ up_setup' = "failed"
    /\ UNCHANGED <<up_cmd, up_file, up_filesize, up_gpio, up_fd, up_baud, up_brt, notUp>>

\* ra_get_chipinfo; case CMD_CHIPINFO does not look at its result
UpChipinfo ==
    /\ up_pc = "chipinfo"
    /\ IF up_cmd = "CMD_CHIPINFO"
       THEN \E ok \in BOOLEAN :
               UpSwitchDone(TRUE, <<Op("ra_get_chipinfo", IF ok THEN <<>> ELSE <<-1>>)>>)
       ELSE \/ UpGo(IF up_cmd = "CMD_FW_INFO" THEN "read_info" ELSE "erase",
                    <<Op("ra_get_chipinfo", <<>>)>>)
            \/ UpFail("chipinfo", <<Op("ra_get_chipinfo", <<-1>>)>>)
    /\ UNCHANGED <<up_cmd, up_file, up_filesize, up_gpio, up_fd, up_baud, up_setup, up_brt, notUp>>

\* case CMD_FW_INFO without a file: ra_read of the info block, then print
UpReadInfo ==
    /\ up_pc = "read_info"
    /\ \/ UpFail("ra_read", <<Op("ra_read", <<-1>>)>>)
       \/ UpFail("print_info", <<Op("ra_read", <<>>)>>)
       \/ UpSwitchDone(TRUE, <<Op("ra_read", <<>>)>>)
    /\ UNCHANGED <<up_cmd, up_file, up_filesize, up_gpio, up_fd, up_baud, up_setup, up_brt, notUp>>

\* an erase step that does not look at the file size
UpErase_NoSizeCheck ==
    /\ up_pc = "erase"
    /\ \/ UpFail("erase", <<Op("ra_rwe_cmd_erase", <<-1>>)>>)
       \/ /\ up_cmd = "CMD_FLASH"
          /\ UpGo("write", <<Op("ra_rwe_cmd_erase", <<>>)>>)
       \/ /\ up_cmd = "CMD_ERASE"
          /\ UpSwitchDone(TRUE, <<Op("ra_rwe_cmd_erase", <<>>)>>)
    /\ UNCHANGED <<up_cmd, up_file, up_filesize, up_gpio, up_fd, up_baud, up_setup, up_brt, notUp>>

\* case CMD_ERASE, CMD_FLASH: the file size checks, then the erase command
UpErase ==
    /\ up_pc = "erase"
    /\ IF /\ up_cmd = "CMD_FLASH"
          /\ \/ up_filesize = 0
             \/ up_filesize > FlashArea.size
             \/ up_filesize % FlashArea.write_unit_size # 0
       THEN UpFail("size_check", <<>>)
       ELSE \/ UpFail("erase", <<Op("ra_rwe_cmd_erase", <<-1>>)>>)
            \/ /\ up_cmd = "CMD_FLASH"
               /\ UpGo("write", <<Op("ra_rwe_cmd_erase", <<>>)>>)
            \/ /\ up_cmd = "CMD_ERASE"
               /\ UpSwitchDone(TRUE, <<Op("ra_rwe_cmd_erase", <<>>)>>)
    /\ UNCHANGED <<up_cmd, up_file, up_filesize, up_gpio, up_fd, up_baud, up_setup, up_brt, notUp>>

\* case CMD_FLASH: ra_write of the file
UpWrite ==
    /\ up_pc = "write"
    /\ \/ UpFail("write", <<Op("ra_write", <<-1>>)>>)
       \/ UpSwitchDone(TRUE, <<Op("ra_write", <<>>)>>)
    /\ UNCHANGED <<up_cmd, up_file, up_filesize, up_gpio, up_fd, up_baud, up_setup, up_brt, notUp>>

\* reset_to_normal_out: if (gpio) ra_reset_to_normal(gpio)
UpResetToNormalOut ==
    /\ up_pc = "reset_to_normal_out"
    /\ up_pc' = "close_out"
    /\ IF up_gpio
       THEN \E ok \in BOOLEAN :
               up_log' = Append(up_log, Op("ra_reset_to_normal", IF ok THEN <<>> ELSE <<-1>>))
       ELSE UNCHANGED up_log
    /\ UNCHANGED <<up_cmd, up_file, up_filesize, up_gpio, up_fd, up_baud, up_roe,
                   up_rc, up_fail, up_setup, up_brt, notUp>>

\* close_out: uart_close, ra_gpio_close, return rc
UpCloseOut ==
    /\ up_pc = "close_out"
    /\ up_pc' = "exited"
    /\ up_fd' = FALSE
    /\ up_baud' = 0
    /\ up_gpio' = FALSE
    /\ UNCHANGED <<up_cmd, up_file, up_filesize, up_roe, up_rc, up_fail,
                   up_setup, up_brt, up_log, notUp>>

UpNext ==
    \/ UpGpioInit
    \/ UpFwMmap
    \/ UpGpioCmd
    \/ UpFwInfoFile
    \/ UpSetupReset
    \/ UpUartOpen
    \/ UpCommSetup
    \/ UpInquiry1
    \/ UpSetBaudrate
    \/ UpReconfigure
    \/ UpInquiry2
    \/ UpChipinfo
    \/ UpReadInfo
    \/ UpErase
    \/ UpWrite
    \/ UpResetToNormalOut
    \/ UpCloseOut

InitUpdate == UpInit /\ CtlIdle /\ WrIdle /\ SyIdle /\ RwIdle /\ FrIdle /\ PkIdle /\ GpIdle /\ PbIdle /\ PtIdle /\ KyIdle /\ TmIdle

SpecUpdate == InitUpdate /\ [][UpNext]_vars

(***************************************************************************)
(* ra-raw.c: main                                                          *)
(***************************************************************************)

FW_PLATFORM_TYPE_CCY == 130

cb_proto_fw_get_platform_type(fw_version) == DATA_GET_BITS(fw_version, 32, 8)

\* cb_send_uart_inquiry: the frame it sends
InquiryFrame(com) == Frame(COM_INQUIRY, DATA_SET_BITS(ZeroWord, 56, 8, com))

\* the frames the safety controller may send, and one with a broken CRC
RawRxFrames ==
    { Frame(COM_CHARGE_STATE, <<32818, 0, 0, 1>>),
      Frame(COM_CHARGE_STATE_2, <<4096, 0, 0, 2>>),
      Frame(COM_PT1000_STATE, <<250, 251, 252, 253>>),
      Frame(COM_FW_VERSION, <<258, 768, FW_PLATFORM_TYPE_CCY, 0>>),
      Frame(COM_FW_VERSION, <<258, 768, 129, 0>>),
      Frame(COM_GIT_HASH, <<57005, 48879, 51966, 47806>>),
      Frame(COM_ERROR_MESSAGE, <<1, 2, 3, 4>>),
      Frame(COM_INQUIRY, <<0, 0, 0, 0>>),
      [Frame(COM_CHARGE_STATE, <<32818, 0, 0, 1>>) EXCEPT ![11] = 0] }

\* those of them cb_uart_recv accepts
RawRxValid == { f \in RawRxFrames : FrameLooksValid(f) }

\* the frames tried as the one the initial sync picks up
RawSyncFrames ==
    { f \in RawRxValid : FrameCom(f) \in {COM_CHARGE_STATE, COM_CHARGE_STATE_2} }

\* a frame that reveals an MCS device
RevealsMcs(f) ==
    \/ FrameCom(f) = COM_CHARGE_STATE_2
    \/ /\ FrameCom(f) = COM_FW_VERSION
       /\ cb_proto_fw_get_platform_type(FrameData(f)) = FW_PLATFORM_TYPE_CCY

\* what the stack may hold in `com` before anything was stored there
RawComGarbage == {0, COM_CHARGE_STATE, COM_CHARGE_STATE_2}

RwInit ==
    /\ rw_pc = "start"
    /\ rw_ctx = ZeroCtx
    /\ rw_com \in RawComGarbage
    /\ rw_flags = NoFlags
    /\ rw_send_cc \in BOOLEAN
    /\ rw_tx = <<>>
    /\ rw_rc = "none"
    /\ rw_owed = FALSE
    /\ rw_trig = FALSE
    /\ rw_last_rx = <<>>
    /\ rw_prev_ctx = ZeroCtx
    /\ rw_rxn = 0
    /\ rw_keyn = 0
    /\ rw_hist = NoHist
    /\ rw_res = NoRes
    /\ rw_fresh = FALSE
    /\ rw_state_com = 0

\* the third branch at the top of the loop
IsChargeState_OnlyClassic(com) == com = COM_CHARGE_STATE

IsChargeState(com) == com = COM_CHARGE_STATE \/ com = COM_CHARGE_STATE_2

\* main leaves with the value rc
RwExit(rc) ==
    /\ rw_pc' = "exited"
    /\ rw_rc' = rc

\* close_out: if (uart.fd != -1) uart_close(&uart);
\* tcsetattr(STDIN_FILENO, TCSANOW, &termios_orig)
CloseOutRes(res) ==
    [res EXCEPT !.uart = FALSE,
                !.tcset = IF res.termios_saved THEN "saved" ELSE "uninitialised"]

\* close_out, and return rc
close_out(rc) ==
    /\ RwExit(rc)
    /\ rw_res' = CloseOutRes(rw_res)

\* main up to the loop: uart_open, the optional reset, the optional
\* cb_uart_recv_and_sync whose frame is dropped but for `com`
RawStart ==
    /\ rw_pc = "start"
    /\ LET opened == [rw_res EXCEPT !.uart = TRUE]
           \* make_stdin_unbuffered(&termios_orig)
           unbuffered == [opened EXCEPT !.termios_saved = TRUE] IN
       \/ \* uart_open fails: return -1
          /\ RwExit(-1)
          /\ UNCHANGED <<rw_com, rw_trig, rw_res, rw_fresh,
                         rw_state_com>>
       \/ \* ra_gpio_init fails, or ra_reset_to_normal fails after
          \* ra_gpio_close(gpio): goto close_out
          /\ RwExit("EXIT_FAILURE")
          /\ rw_res' = CloseOutRes(opened)
          /\ UNCHANGED <<rw_com, rw_trig, rw_fresh,
                         rw_state_com>>
       \/ \* without --sync
          /\ rw_pc' = "loop_top"
          /\ rw_res' = unbuffered
          /\ UNCHANGED <<rw_com, rw_trig, rw_rc, rw_fresh,
                         rw_state_com>>
       \/ \* --sync, cb_uart_recv_and_sync fails: return -1
          /\ RwExit(-1)
          /\ rw_res' = opened
          /\ UNCHANGED <<rw_com, rw_trig, rw_fresh,
                         rw_state_com>>
       \/ \* --sync, a valid frame came
          \E f \in RawSyncFrames :
             /\ rw_com' = FrameCom(f)
             /\ rw_trig' = RevealsMcs(f)
             /\ rw_fresh' = IsChargeState(FrameCom(f))
             /\ rw_state_com' = FrameCom(f)
             /\ rw_pc' = "loop_top"
             /\ rw_res' = unbuffered
             /\ UNCHANGED rw_rc
       \/ \* --sync, 0 returned after the third bad frame: com was not written
          /\ rw_pc' = "loop_top"
          /\ rw_res' = unbuffered
          /\ UNCHANGED <<rw_com, rw_trig, rw_rc, rw_fresh,
                         rw_state_com>>
    /\ UNCHANGED <<rw_ctx, rw_flags, rw_send_cc, rw_tx, rw_owed, rw_last_rx,
                   rw_prev_ctx, rw_rxn, rw_keyn, rw_hist, notRw>>

\* the charge control frame for the mode ctx is in
ChargeControlFrame(ctx) ==
    Frame(IF ctx.mcs THEN COM_CHARGE_CONTROL_2 ELSE COM_CHARGE_CONTROL,
          ctx.charge_control)

\* a charge control frame is among the frames fs
HasChargeControl(fs) ==
    \E i \in 1 .. Len(fs) :
        FrameCom(fs[i]) \in {COM_CHARGE_CONTROL, COM_CHARGE_CONTROL_2}

\* a loop that asks for the firmware version until the answer has come
LoopTopFrames_AsksAgain ==
    IF ~rw_flags.fw_version_received
    THEN <<InquiryFrame(COM_FW_VERSION)>>
    ELSE IF ~rw_flags.git_hash_requested
    THEN <<InquiryFrame(COM_GIT_HASH)>>
            \o (IF rw_send_cc THEN <<ChargeControlFrame(rw_ctx)>> ELSE <<>>)
    ELSE IF IsChargeState(rw_com) /\ rw_send_cc
    THEN <<ChargeControlFrame(rw_ctx)>>
    ELSE <<>>

\* the frames the top of the loop writes, in order
LoopTopFrames ==
    IF ~rw_flags.fw_version_requested
    THEN <<InquiryFrame(COM_FW_VERSION)>>
    ELSE IF ~rw_flags.git_hash_requested /\ rw_flags.fw_version_received
    THEN <<InquiryFrame(COM_GIT_HASH)>>
            \o (IF rw_send_cc THEN <<ChargeControlFrame(rw_ctx)>> ELSE <<>>)
    ELSE IF IsChargeState(rw_com) /\ rw_send_cc
    THEN <<ChargeControlFrame(rw_ctx)>>
    ELSE <<>>

\* the frames fs have gone out: the count of inquiries per kind, whether a
\* GIT_HASH inquiry went out before any FW_VERSION frame came in, and the
\* COM and first payload byte of the first frame ever written
RECURSIVE HistAfterTx(_, _)
HistAfterTx(h, fs) ==
    IF fs = <<>> THEN h
    ELSE LET f == Head(fs)
             inq(com) == f[2] = COM_INQUIRY /\ f[3] = com
         IN  HistAfterTx(
                 [h EXCEPT !.fw_inq = IF inq(COM_FW_VERSION) THEN @ + 1 ELSE @,
                           !.git_inq = IF inq(COM_GIT_HASH) THEN @ + 1 ELSE @,
                           !.git_early = @ \/ (inq(COM_GIT_HASH) /\ ~h.fw_rx),
                           !.first = IF @ = <<>> THEN <<f[2], f[3]>> ELSE @],
                 Tail(fs))

\* the top of the loop, up to poll(): every frame goes out, or a
\* cb_uart_send fails and main leaves through close_out
RawLoopTop ==
    /\ rw_pc = "loop_top"
    /\ LET fs == LoopTopFrames IN
       \/ /\ rw_pc' = "poll"
          /\ rw_tx' = fs
          /\ rw_hist' = HistAfterTx(rw_hist, fs)
          /\ rw_owed' = (rw_owed /\ ~HasChargeControl(fs))
          /\ rw_fresh' = (rw_fresh /\ ~HasChargeControl(fs))
          /\ rw_flags' =
                IF ~rw_flags.fw_version_requested
                THEN [rw_flags EXCEPT !.fw_version_requested = TRUE]
                ELSE IF ~rw_flags.git_hash_requested /\ rw_flags.fw_version_received
                THEN [rw_flags EXCEPT !.git_hash_requested = TRUE]
                ELSE rw_flags
          /\ UNCHANGED <<rw_rc, rw_res>>
       \/ \E n \in 1 .. Len(fs) :
             \* the n-th cb_uart_send fails
             /\ close_out("EXIT_FAILURE")
             /\ rw_tx' = SubSeq(fs, 1, n - 1)
             /\ rw_hist' = HistAfterTx(rw_hist, SubSeq(fs, 1, n - 1))
             /\ rw_flags' =
                   IF n = 2 THEN [rw_flags EXCEPT !.git_hash_requested = TRUE]
                   ELSE rw_flags
             /\ rw_owed' = (rw_owed /\ ~HasChargeControl(SubSeq(fs, 1, n - 1)))
             /\ rw_fresh' = (rw_fresh /\ ~HasChargeControl(SubSeq(fs, 1, n - 1)))
    /\ UNCHANGED <<rw_ctx, rw_com, rw_send_cc, rw_trig, rw_last_rx, rw_prev_ctx,
                   rw_rxn, rw_keyn, rw_state_com, notRw>>

\* the keys of the classic menu that change charge_control
ClassicKey(cc, cmd) ==
    CASE cmd = "e" -> cb_proto_set_pwm_active(cc, TRUE)
      [] cmd = "E" -> cb_proto_set_pwm_active(cc, FALSE)
      [] cmd = "r" -> cb_proto_set_pwm_active(cb_proto_set_duty_cycle(cc, 50), TRUE)
      [] cmd = "t" -> cb_proto_set_pwm_active(cb_proto_set_duty_cycle(cc, 100), TRUE)
      [] cmd = "z" -> cb_proto_set_pwm_active(cb_proto_set_duty_cycle(cc, 1000), TRUE)
      [] cmd = "1" -> cb_proto_contactorN_set_state(cc, 0,
                          cb_proto_contactorN_get_target_state(cc, 0) = 0)
      [] cmd = "2" -> cb_proto_contactorN_set_state(cc, 1,
                          cb_proto_contactorN_get_target_state(cc, 1) = 0)
      [] cmd = "0" -> cb_proto_set_duty_cycle(cc, 0)
      [] cmd = "5" -> cb_proto_set_duty_cycle(cc, 50)
      [] cmd = "6" -> cb_proto_set_duty_cycle(cc, 100)
      [] cmd = "9" -> cb_proto_set_duty_cycle(cc, 1000)
      [] cmd = "-" ->
            \* unsigned: below 10 the difference wraps to above 1000
            LET d == cb_proto_get_target_duty_cycle(cc) - 10
            IN  cb_proto_set_duty_cycle(cc, IF d < 0 \/ d > 1000 THEN 0 ELSE d)
      [] cmd = "+" -> cb_proto_set_duty_cycle(cc, cb_proto_get_target_duty_cycle(cc) + 10)
      [] OTHER -> cc

\* the keys of the MCS menu that change charge_control
McsKey(cc, cmd) ==
    CASE cmd = "r" -> cb_proto_set_ccs_ready(cc, TRUE)
      [] cmd = "R" -> cb_proto_set_ccs_ready(cc, FALSE)
      [] cmd = "e" -> cb_proto_set_estop(cc, TRUE)
      [] OTHER -> cc

\* the keys tried: each kind of the menus, and one that is in neither
RawKeys == {"e", "r", "R", "1", "s", "c", "q", "x"}

\* ctx after the key (none: "")
CtxAfterKey(ctx, cmd) ==
    [ctx EXCEPT !.charge_control =
        IF ctx.mcs THEN McsKey(@, cmd) ELSE ClassicKey(@, cmd)]

\* cb_proto_set_ts_str(ctx, com): the index of the slot of ts_str_recv_com
\* (COM_MAX entries) the timestamp is written to
cb_proto_set_ts_str(com) == com

\* the switch on com after a frame was received
ApplyFrame(ctx, com, data) ==
    CASE com = COM_CHARGE_STATE_2 -> [ctx EXCEPT !.mcs = TRUE, !.charge_state = data]
      [] com = COM_CHARGE_STATE -> [ctx EXCEPT !.charge_state = data]
      [] com = COM_PT1000_STATE -> [ctx EXCEPT !.pt1000 = data]
      [] com = COM_FW_VERSION ->
            [ctx EXCEPT !.fw_version = data,
                        !.mcs = IF cb_proto_fw_get_platform_type(data) = FW_PLATFORM_TYPE_CCY
                                THEN TRUE ELSE @]
      [] com = COM_GIT_HASH -> [ctx EXCEPT !.git_hash = data]
      [] OTHER -> ctx

FlagsAfterFrame(flags, com) ==
    CASE com = COM_FW_VERSION -> [flags EXCEPT !.fw_version_received = TRUE]
      [] com = COM_GIT_HASH -> [flags EXCEPT !.git_hash_received = TRUE]
      [] OTHER -> flags

\* one pass from poll() to the end of the loop body: the key on stdin first,
\* then the frame on the UART
RawPoll ==
    /\ rw_pc = "poll"
    /\ \/ \* poll fails with EINTR, or read(stdin) fails
          /\ close_out("EXIT_FAILURE")
          /\ rw_tx' = <<>>
          /\ UNCHANGED <<rw_ctx, rw_com, rw_flags, rw_send_cc, rw_owed, rw_trig,
                         rw_last_rx, rw_prev_ctx, rw_rxn, rw_keyn, rw_hist, rw_fresh,
                         rw_state_com>>
       \/ \* poll fails otherwise: continue
          /\ rw_pc' = "loop_top"
          /\ rw_tx' = <<>>
          /\ UNCHANGED <<rw_ctx, rw_com, rw_flags, rw_send_cc, rw_owed, rw_trig,
                         rw_last_rx, rw_prev_ctx, rw_rxn, rw_keyn, rw_hist, rw_rc,
                         rw_res, rw_fresh,
                         rw_state_com>>
       \/ \E cmd \in RawKeys \cup {""}, f \in RawRxFrames \cup {<<>>},
             send_ok \in BOOLEAN :
             LET ctx1   == CtxAfterKey(rw_ctx, cmd)
                 cc1    == IF cmd = "s" THEN ~rw_send_cc ELSE rw_send_cc
                 manual == IF cmd = "c" /\ send_ok
                           THEN <<ChargeControlFrame(rw_ctx)>> ELSE <<>>
                 owed1  == rw_owed /\ manual = <<>>
                 \* goto close_out before the UART is looked at
                 leave  == cmd = "q" \/ (cmd = "c" /\ ~send_ok)
                 rx     == ~leave /\ f # <<>>
                 valid  == rx /\ f \in RawRxValid
             IN
             /\ cmd # "" \/ f # <<>>
             /\ cmd # "" => rw_keyn < MaxRawKeys
             /\ f # <<>> => rw_rxn < MaxRawRx
             /\ cmd # "c" => send_ok
             /\ rw_keyn' = IF cmd # "" THEN rw_keyn + 1 ELSE rw_keyn
             /\ rw_rxn' = IF rx THEN rw_rxn + 1 ELSE rw_rxn
             /\ rw_send_cc' = cc1
             /\ rw_tx' = manual
             /\ rw_hist' = [HistAfterTx(rw_hist, manual) EXCEPT
                               !.fw_rx = @ \/ (valid /\ f[2] = COM_FW_VERSION),
                               !.quit = (cmd = "q")]
             /\ IF valid
                THEN /\ rw_com' = FrameCom(f)
                     /\ rw_prev_ctx' = ctx1
                     /\ rw_last_rx' = f
                     /\ rw_ctx' = ApplyFrame(ctx1, FrameCom(f), FrameData(f))
                     /\ rw_flags' = FlagsAfterFrame(rw_flags, FrameCom(f))
                     /\ rw_trig' = (rw_trig \/ RevealsMcs(f))
                     /\ rw_owed' = (owed1 \/ (cc1 /\ FrameCom(f) \in
                                        {COM_CHARGE_STATE, COM_CHARGE_STATE_2}))
                     /\ rw_fresh' = (rw_fresh \/ IsChargeState(FrameCom(f)))
                     /\ rw_state_com' = IF IsChargeState(FrameCom(f))
                                        THEN FrameCom(f) ELSE rw_state_com
                ELSE /\ rw_ctx' = ctx1
                     /\ rw_last_rx' = <<>>
                     /\ rw_owed' = owed1
                     /\ UNCHANGED <<rw_com, rw_prev_ctx, rw_flags, rw_trig, rw_fresh,
                         rw_state_com>>
             /\ IF leave \/ (rx /\ ~valid)
                THEN close_out("EXIT_FAILURE")
                ELSE rw_pc' = "loop_top" /\ UNCHANGED <<rw_rc, rw_res>>
    /\ UNCHANGED notRw

RwNext ==
    \/ RawStart
    \/ RawLoopTop
    \/ RawPoll

InitRaw == RwInit /\ CtlIdle /\ WrIdle /\ SyIdle /\ UpIdle /\ FrIdle /\ PkIdle /\ GpIdle /\ PbIdle /\ PtIdle /\ KyIdle /\ TmIdle

SpecRaw == InitRaw /\ [][RwNext]_vars

(***************************************************************************)
(* ra_gpio.c: the RESET and MD lines                                       *)
(***************************************************************************)

GPIOD_LINE_VALUE_INACTIVE == 0
GPIOD_LINE_VALUE_ACTIVE == 1

GpFns == {"ra_reset_to_bootloader", "ra_reset_to_normal", "ra_hold_reset"}

\* the arguments the three functions pass on
force_bootloader(fn) == fn = "ra_reset_to_bootloader"
hold_until_signal(fn) == fn = "ra_hold_reset"

\* reset periods tried, in ms (unsigned int rst_duration)
ResetDurations == {0, 500, 4294967, 4294968}

\* dur * 1000 as three 16-bit limbs, most significant first
Micros(dur) ==
    LET lo == (dur % 65536) * 1000
        hi == (dur \div 65536) * 1000 + lo \div 65536
    IN  <<hi \div 65536, hi % 65536, lo % 65536>>

\* ctx->rst_duration * 1000 in unsigned int, as <<hi, lo>>
UsleepArg(dur) == <<Micros(dur)[2], Micros(dur)[3]>>

\* before ra_gpio_init: the lines are held ACTIVE by their pull-ups; main
\* calls ra_set_reset_duration before any reset
GpInit ==
    /\ gp_pc = "init"
    /\ gp_req = "none"
    /\ gp_fn = "none"
    /\ gp_rst = GPIOD_LINE_VALUE_ACTIVE
    /\ gp_md = GPIOD_LINE_VALUE_ACTIVE
    /\ gp_dur \in ResetDurations
    /\ gp_log = <<>>
    /\ gp_rv = 0
    /\ gp_calls = 0

\* ra_gpio_init: NULL through err_out, or ctx with what
\* gpiod_chip_request_lines returned in ctx->line_request (both lines
\* requested as outputs with value ACTIVE, or NULL)
ra_gpio_init ==
    /\ gp_pc = "init"
    /\ \/ \* calloc, gpiod_chip_open, a line name or a settings call failed
          /\ gp_pc' = "no_ctx"
          /\ UNCHANGED gp_req
       \/ /\ gp_pc' = "idle"
          /\ gp_req' \in {"valid", "NULL"}
    /\ UNCHANGED <<gp_fn, gp_rst, gp_md, gp_dur, gp_log, gp_rv, gp_calls, notGp>>

\* if (rv) return rv;
GpReturnError(what) ==
    /\ gp_pc' = "returned"
    /\ gp_rv' = -1
    /\ gp_log' = Append(gp_log, Op(what, <<>>))

\* entry, and gpiod_line_request_set_value(rst_offset, INACTIVE)
GpSetResetLow ==
    /\ gp_pc \in {"idle", "returned"}
    /\ gp_calls < MaxGpCalls
    /\ gp_calls' = gp_calls + 1
    /\ \E fn \in GpFns : gp_fn' = fn
    /\ \/ /\ gp_req = "valid"
          /\ gp_rst' = GPIOD_LINE_VALUE_INACTIVE
          /\ gp_log' = Append(gp_log, Op("rst", GPIOD_LINE_VALUE_INACTIVE))
          /\ gp_pc' = "rst_low"
          /\ UNCHANGED gp_rv
       \/ /\ GpReturnError("rst_failed")
          /\ UNCHANGED gp_rst
       \/ \* the library dereferences the NULL request
          /\ gp_req = "NULL"
          /\ gp_pc' = "crashed"
          /\ gp_log' = Append(gp_log, Op("rst_null_request", <<>>))
          /\ UNCHANGED <<gp_rst, gp_rv>>
    /\ UNCHANGED <<gp_md, gp_dur, gp_req, notGp>>

\* gpiod_line_request_set_value(md_offset, force_bootloader ? INACTIVE : ACTIVE)
GpSetMd ==
    /\ gp_pc = "rst_low"
    /\ LET value == IF force_bootloader(gp_fn) THEN GPIOD_LINE_VALUE_INACTIVE
                                               ELSE GPIOD_LINE_VALUE_ACTIVE
       IN  \/ /\ gp_md' = value
              /\ gp_log' = Append(gp_log, Op("md", value))
              /\ gp_pc' = "md_set"
              /\ UNCHANGED gp_rv
           \/ /\ GpReturnError("md_failed")
              /\ UNCHANGED gp_md
    /\ UNCHANGED <<gp_fn, gp_rst, gp_dur, gp_calls, gp_req, notGp>>

\* pause(), or usleep(ctx->rst_duration * 1000)
GpWait ==
    /\ gp_pc = "md_set"
    /\ IF hold_until_signal(gp_fn)
       THEN /\ gp_log' = Append(gp_log, Op("pause", <<>>))
            /\ gp_pc' = "waited"
            /\ UNCHANGED gp_rv
       ELSE \/ /\ gp_log' = Append(gp_log, Op("usleep", UsleepArg(gp_dur)))
               /\ gp_pc' = "waited"
               /\ UNCHANGED gp_rv
            \/ GpReturnError("usleep_failed")
    /\ UNCHANGED <<gp_fn, gp_rst, gp_md, gp_dur, gp_calls, gp_req, notGp>>

\* gpiod_line_request_set_value(rst_offset, ACTIVE); return 0
GpSetResetHigh ==
    /\ gp_pc = "waited"
    /\ \/ /\ gp_rst' = GPIOD_LINE_VALUE_ACTIVE
          /\ gp_log' = Append(gp_log, Op("rst", GPIOD_LINE_VALUE_ACTIVE))
          /\ gp_pc' = "returned"
          /\ gp_rv' = 0
       \/ /\ GpReturnError("rst_failed")
          /\ UNCHANGED gp_rst
    /\ UNCHANGED <<gp_fn, gp_md, gp_dur, gp_calls, gp_req, notGp>>

GpNext ==
    \/ ra_gpio_init
    \/ GpSetResetLow
    \/ GpSetMd
    \/ GpWait
    \/ GpSetResetHigh

InitGpio == GpInit /\ CtlIdle /\ WrIdle /\ SyIdle /\ UpIdle /\ RwIdle /\ FrIdle /\ PkIdle /\ PbIdle /\ PtIdle /\ KyIdle /\ TmIdle

SpecGpio == InitGpio /\ [][GpNext]_vars

(***************************************************************************)
(* param_block.c: the parameter block file                                 *)
(***************************************************************************)

CHANNEL_DISABLE_VALUE == 8191
OLD_CHANNEL_DISABLE_VALUE == 32768
PARAMETER_BLOCK_VERSION == 1
CONTACTOR_NONE == 0
CONTACTOR_WITHOUT_FEEDBACK == 1
CONTACTOR_WITH_FEEDBACK_NO == 2
CONTACTOR_WITH_FEEDBACK_NC == 3
PB_READ_ERROR_MAGIC == 1
PB_READ_ERROR_CRC == 2

\* sizeof(struct unversioned_param_block), sizeof(struct param_block)
OldPbSize == 22
PbSize == 36

\* htole32(MARKER) in memory: 0xC001F00D, least significant byte first
MARKER == <<13, 240, 1, 192>>

\* CRC-8 with polynomial 0x2F, init 0xFF and final inversion
RECURSIVE PbCrcShift(_, _)
PbCrcShift(crc, n) ==
    IF n = 0 THEN crc
    ELSE PbCrcShift(IF crc >= 128 THEN XorBits((crc * 2) % 256, 47, 8)
                                  ELSE (crc * 2) % 256, n - 1)

PbCrcTable == [b \in 0 .. 255 |-> PbCrcShift(b, 8)]

\* the loop over the buffer; crc is a uint8_t, evaluated at every step
RECURSIVE PbCrcFold(_, _, _)
PbCrcFold(buf, i, crc) ==
    IF i > Len(buf) \/ crc \notin 0 .. 255 THEN crc
    ELSE PbCrcFold(buf, i + 1, PbCrcTable[XorBits(crc, buf[i], 8)])

crc8(buf) == XorBits(PbCrcFold(buf, 1, 255), 255, 8)

\* an int16_t in memory, and back
BytesLE16(v) == LET u == (v + 65536) % 65536 IN <<u % 256, u \div 256>>
Int16LE(lo, hi) == LET u == lo + 256 * hi IN IF u >= 32768 THEN u - 65536 ELSE u

RECURSIVE ArrayLE16(_)
ArrayLE16(a) == IF a = <<>> THEN <<>> ELSE BytesLE16(Head(a)) \o ArrayLE16(Tail(a))

Int16Array(bytes, n) == [i \in 1 .. n |-> Int16LE(bytes[2 * i - 1], bytes[2 * i])]

\* struct param_block as its 36 bytes (packed), and the struct those bytes are
PbBytes(b) ==
    b.sob \o BytesLE16(b.version) \o ArrayLE16(b.temperature)
          \o ArrayLE16(b.temperature_resistance_offset)
          \o b.contactor_type \o b.contactor_close_time \o b.contactor_open_time
          \o b.estop \o b.eob \o <<b.crc>>

PbStruct(bytes) ==
    [sob |-> SubSeq(bytes, 1, 4),
     version |-> bytes[5] + 256 * bytes[6],
     temperature |-> Int16Array(SubSeq(bytes, 7, 14), 4),
     temperature_resistance_offset |-> Int16Array(SubSeq(bytes, 15, 22), 4),
     contactor_type |-> SubSeq(bytes, 23, 24),
     contactor_close_time |-> SubSeq(bytes, 25, 26),
     contactor_open_time |-> SubSeq(bytes, 27, 28),
     estop |-> SubSeq(bytes, 29, 31),
     eob |-> SubSeq(bytes, 32, 35),
     crc |-> bytes[36]]

\* struct unversioned_param_block as its 22 bytes, and back
OldPbBytes(b) ==
    b.sob \o ArrayLE16(b.temperature) \o b.contactor \o b.estop \o b.eob \o <<b.crc>>

OldPbStruct(bytes) ==
    [sob |-> SubSeq(bytes, 1, 4),
     temperature |-> Int16Array(SubSeq(bytes, 5, 12), 4),
     contactor |-> SubSeq(bytes, 13, 14),
     estop |-> SubSeq(bytes, 15, 17),
     eob |-> SubSeq(bytes, 18, 21),
     crc |-> bytes[22]]

pb_refresh_crc(b) == [b EXCEPT !.crc = crc8(SubSeq(PbBytes(b), 1, PbSize - 1))]

pb_check_crc(b) == b.crc = crc8(SubSeq(PbBytes(b), 1, PbSize - 1))

pb_check_unversioned_param_block_crc(old) ==
    old.crc = crc8(SubSeq(OldPbBytes(old), 1, OldPbSize - 1))

pb_init ==
    pb_refresh_crc(
        [sob |-> MARKER,
         version |-> PARAMETER_BLOCK_VERSION,
         temperature |-> [i \in 1 .. 4 |-> CHANNEL_DISABLE_VALUE],
         temperature_resistance_offset |-> <<0, 0, 0, 0>>,
         contactor_type |-> <<0, 0>>,
         contactor_close_time |-> <<0, 0>>,
         contactor_open_time |-> <<0, 0>>,
         estop |-> <<0, 0, 0>>,
         eob |-> MARKER,
         crc |-> 0])

\* a migration that copies the contactor types as they are
pb_migrate_unversioned_to_versioned_NoRemap(old, new) ==
    pb_refresh_crc([new EXCEPT !.temperature = old.temperature,
                               !.contactor_type = old.contactor,
                               !.estop = old.estop])

pb_migrate_unversioned_to_versioned(old, new) ==
    pb_refresh_crc(
        [new EXCEPT !.temperature = old.temperature,
                    !.contactor_type =
                        [i \in 1 .. 2 |-> IF old.contactor[i] = CONTACTOR_WITH_FEEDBACK_NO
                                          THEN CONTACTOR_WITH_FEEDBACK_NC
                                          ELSE old.contactor[i]],
                    !.estop = old.estop])

\* pb_read on a file holding `bytes`, with `prev` in *param_block before
pb_read(bytes, prev) ==
    IF Len(bytes) < OldPbSize
    THEN [rv |-> -1, block |-> prev, legacy |-> FALSE]
    ELSE LET old_pb == OldPbStruct(SubSeq(bytes, 1, OldPbSize)) IN
         IF old_pb.sob # MARKER
         THEN [rv |-> PB_READ_ERROR_MAGIC, block |-> prev, legacy |-> FALSE]
         ELSE IF old_pb.eob = MARKER
         THEN [rv |-> IF pb_check_unversioned_param_block_crc(old_pb)
                      THEN 0 ELSE PB_READ_ERROR_CRC,
               block |-> pb_migrate_unversioned_to_versioned(old_pb, pb_init),
               legacy |-> TRUE]
         ELSE IF Len(bytes) < PbSize
         THEN [rv |-> -1, block |-> prev, legacy |-> FALSE]
         ELSE LET new == PbStruct(SubSeq(bytes, 1, PbSize)) IN
              [rv |-> IF new.eob # MARKER THEN PB_READ_ERROR_MAGIC
                      ELSE IF ~pb_check_crc(new) THEN PB_READ_ERROR_CRC
                      ELSE 0,
               block |-> new,
               legacy |-> FALSE]

\* pb_write: the CRC is refreshed in the struct, then the struct is written
pb_write(b) == PbBytes(pb_refresh_crc(b))

\* the blocks handed to pb_write: fields within their documented ranges
PbTemperatures ==
    { <<-800, 0, 2000, CHANNEL_DISABLE_VALUE>>,
      <<CHANNEL_DISABLE_VALUE, CHANNEL_DISABLE_VALUE, CHANNEL_DISABLE_VALUE, CHANNEL_DISABLE_VALUE>>,
      <<250, 800, -1, 1999>> }
PbOffsets ==
    { <<0, 0, 0, 0>>, <<-32000, 32000, 1, -1>>, <<13, 240, 1, 192>>,
      <<0, 3328, 496, 192>>, <<100, 3583, 496, 32000>>, <<0, 3328, 497, 192>> }
PbContactors == { <<0, 0>>, <<1, 2>>, <<2, 2>>, <<3, 1>> }
PbTimes == { <<0, 0>>, <<10, 255>> }
PbEstops == { <<0, 0, 0>>, <<1, 1, 1>>, <<1, 0, 1>> }

\* the pre-versioned blocks found in files
OldPbTemperatures ==
    { <<-3000, -1976, -952, 80>>, <<-800, 2000, -32768, CHANNEL_DISABLE_VALUE>> }

PbInit ==
    /\ pb_pc = "idle"
    /\ pb_kind = "none"
    /\ pb_block = <<>>
    /\ pb_file = <<>>
    /\ pb_out = <<>>
    /\ pb_rv = 0
    /\ pb_legacy = FALSE

\* ra-pb-create: a block is filled in and written with pb_write
PbWrite ==
    /\ pb_pc = "idle"
    /\ \E t \in PbTemperatures, o \in PbOffsets, c \in PbContactors,
          ct \in PbTimes, ot \in PbTimes, e \in PbEstops, stale \in {0, 90} :
          LET b == [pb_init EXCEPT !.temperature = t,
                                   !.temperature_resistance_offset = o,
                                   !.contactor_type = c,
                                   !.contactor_close_time = ct,
                                   !.contactor_open_time = ot,
                                   !.estop = e,
                                   !.crc = stale]
          IN  /\ pb_block' = pb_refresh_crc(b)
              /\ pb_file' = pb_write(b)
    /\ pb_kind' = "pb_write"
    /\ pb_pc' = "stored"
    /\ UNCHANGED <<pb_out, pb_rv, pb_legacy, notPb>>

\* a file written by the tools before the block was versioned
PbLegacyFile ==
    /\ pb_pc = "idle"
    /\ \E t \in OldPbTemperatures, c \in PbContactors, e \in PbEstops,
          crc_ok \in BOOLEAN :
          LET raw == [sob |-> MARKER, temperature |-> t, contactor |-> c,
                      estop |-> e, eob |-> MARKER, crc |-> 0]
              sum == crc8(SubSeq(OldPbBytes(raw), 1, OldPbSize - 1))
              old == [raw EXCEPT !.crc = IF crc_ok THEN sum ELSE (sum + 1) % 256]
          IN  /\ pb_block' = old
              /\ pb_file' = OldPbBytes(old)
    /\ pb_kind' = "legacy"
    /\ pb_pc' = "stored"
    /\ UNCHANGED <<pb_out, pb_rv, pb_legacy, notPb>>

\* ra-pb-dump: pb_read of the file into a zeroed struct
PbRead ==
    /\ pb_pc = "stored"
    /\ LET r == pb_read(pb_file, PbStruct([i \in 1 .. PbSize |-> 0]))
       IN  /\ pb_out' = r.block
           /\ pb_rv' = r.rv
           /\ pb_legacy' = r.legacy
    /\ pb_pc' = "read"
    /\ UNCHANGED <<pb_kind, pb_block, pb_file, notPb>>

PbNext ==
    \/ PbWrite
    \/ PbLegacyFile
    \/ PbRead

InitParam == PbInit /\ CtlIdle /\ WrIdle /\ SyIdle /\ UpIdle /\ RwIdle /\ FrIdle /\ PkIdle /\ GpIdle /\ PtIdle /\ KyIdle /\ TmIdle

SpecParam == InitParam /\ [][PbNext]_vars

(***************************************************************************)
(* lib/cb_protocol.c: the PT1000 accessors                                 *)
(***************************************************************************)

CB_PROTO_MAX_PT1000S == 4
PT1000_TEMPERATURE_UNUSED == 8191

\* an is_active that compares the 16-bit channel value, its two flag bits
\* set, with the sentinel
cb_proto_pt1000_is_active_WholeChannel(pt1000, channel) ==
    LET v == DATA_GET_BITS(pt1000, 16 * (CB_PROTO_MAX_PT1000S - 1 - channel), 16)
    IN  (v \div 4) * 4 + 3 # PT1000_TEMPERATURE_UNUSED

cb_proto_pt1000_is_active(pt1000, channel) ==
    DATA_GET_BITS(pt1000, 16 * (CB_PROTO_MAX_PT1000S - 1 - channel) + 2, 14)
        # PT1000_TEMPERATURE_UNUSED

\* int16_t d = ...; (double)(d >> 2) / 10.0, here as d >> 2 in 0.1 degrees C
cb_proto_pt1000_get_temp(pt1000, channel) ==
    LET u == DATA_GET_BITS(pt1000, 16 * (CB_PROTO_MAX_PT1000S - 1 - channel), 16)
        d == IF u >= 32768 THEN u - 65536 ELSE u
    IN  IF d >= 0 THEN d \div 4 ELSE -((-d + 3) \div 4)

cb_proto_pt1000_get_errors(pt1000, channel) ==
    DATA_GET_BITS(pt1000, 16 * (CB_PROTO_MAX_PT1000S - 1 - channel), 2)

\* 16-bit channel values a PT1000_STATE frame carries
PtChannelValues == {0, 992, 1000, 8188, 32764, 32767, 65535}

PtInit ==
    /\ pt_pc = "idle"
    /\ pt_word \in [1 .. 4 -> PtChannelValues]
    /\ pt_ch = 0
    /\ pt_active = FALSE
    /\ pt_temp = 0
    /\ pt_errors = 0

\* cb_proto_dump: the three accessors on one channel of ctx->pt1000
PtDecode ==
    /\ pt_pc = "idle"
    /\ \E channel \in 0 .. (CB_PROTO_MAX_PT1000S - 1) :
          /\ pt_ch' = channel
          /\ pt_active' = cb_proto_pt1000_is_active(pt_word, channel)
          /\ pt_temp' = cb_proto_pt1000_get_temp(pt_word, channel)
          /\ pt_errors' = cb_proto_pt1000_get_errors(pt_word, channel)
    /\ pt_pc' = "decoded"
    /\ UNCHANGED <<pt_word, notPt>>

PtNext == PtDecode

InitPt1000 == PtInit /\ CtlIdle /\ WrIdle /\ SyIdle /\ UpIdle /\ RwIdle /\ FrIdle /\ PkIdle /\ GpIdle /\ PbIdle /\ KyIdle /\ TmIdle

SpecPt1000 == InitPt1000 /\ [][PtNext]_vars

(***************************************************************************)
(* ra-raw.c: the key commands of the classic menu, any number of them      *)
(***************************************************************************)

\* every key the classic switch has a case for that changes charge_control,
\* and one it has none for
ClassicKeys == {"e", "E", "r", "t", "z", "1", "2", "0", "5", "6", "9", "-", "+", "x"}

\* struct safety_controller ctx = {}
KyInit ==
    /\ ky_pc = "menu"
    /\ ky_cc = ZeroWord
    /\ ky_cmd = ""
    /\ ky_prev = 0

\* one key read from stdin while cb_proto_is_mcs_mode(&ctx) is false
KyKey ==
    /\ ky_pc = "menu"
    /\ \E cmd \in ClassicKeys :
          /\ ky_cc' = ClassicKey(ky_cc, cmd)
          /\ ky_cmd' = cmd
    /\ ky_prev' = cb_proto_get_target_duty_cycle(ky_cc)
    /\ UNCHANGED <<ky_pc, notKy>>

KyNext == KyKey

InitKeys == KyInit /\ CtlIdle /\ WrIdle /\ SyIdle /\ UpIdle /\ RwIdle /\ FrIdle /\ PkIdle /\ GpIdle /\ PbIdle /\ PtIdle /\ TmIdle

SpecKeys == InitKeys /\ [][KyNext]_vars

(***************************************************************************)
(* src/param_block.c: the contactor close and open times                   *)
(*                                                                         *)
(* A string is its leading decimal digits (most significant first) and    *)
(* the characters after them, where strtoul() stops.                       *)
(***************************************************************************)

\* strtoul(s, &endptr, 10) over the leading digits
RECURSIVE DecValue(_)
DecValue(digits) ==
    IF digits = <<>> THEN 0
    ELSE 10 * DecValue(SubSeq(digits, 1, Len(digits) - 1)) + digits[Len(digits)]

\* the result of str_to_contactor_time: rv and, if rv = 0, the byte written to *time
str_to_contactor_time(s, errno) ==
    LET val == DecValue(s.digits)
    IN  IF errno # 0 \/ s.digits = <<>> \/ ~(s.suffix = "ms" \/ s.suffix = " ms")
        THEN [rv |-> -1, time |-> 0]
        ELSE [rv |-> 0, time |-> IF val \div 10 > 255 THEN 255 ELSE val \div 10]

\* the conversion of the uint8_t argument to the int8_t parameter
ToInt8(v) == IF v >= 128 THEN v - 256 ELSE v

\* an int in -65536 .. 65535 read as unsigned int by %u, as <<high, low>> 16-bit halves
ToUnsigned(x) == IF x < 0 THEN <<65535, 65536 + x>> ELSE <<0, x>>

\* one step of printing in decimal: quotient and remainder of u divided by 10
UDivMod10(u) ==
    LET w == (u[1] % 10) * 65536 + u[2]
    IN  [q |-> <<u[1] \div 10, w \div 10>>, r |-> w % 10]

\* %u
RECURSIVE FormatU(_)
FormatU(u) ==
    IF u[1] = 0 /\ u[2] < 10 THEN <<u[2]>>
    ELSE FormatU(UDivMod10(u).q) \o <<UDivMod10(u).r>>

\* snprintf(buffer, size, "%u ms", time * 10) with int8_t time
contactor_time_to_str(time) ==
    [digits |-> FormatU(ToUnsigned(ToInt8(time) * 10)), suffix |-> " ms"]

\* the decimal digits of a natural number
RECURSIVE DecString(_)
DecString(n) == IF n < 10 THEN <<n>> ELSE DecString(n \div 10) \o <<n % 10>>

\* the times tried: every multiple of 10 up to 2600 ms and some others
TmTimes == {10 * k : k \in 0 .. 260} \cup {5, 19, 1285, 2559, 99999}

\* the scalars tried for close-time and open-time
TmStrings ==
    {[digits |-> DecString(n), suffix |-> " ms"] : n \in TmTimes}
    \cup {[digits |-> DecString(n), suffix |-> x] : n \in {0, 100, 2000}, x \in {"ms", "", " s", "  ms"}}
    \cup {[digits |-> <<>>, suffix |-> x] : x \in {" ms", "ms", "fast"}}

\* errno is not cleared before strtoul(): 0, or what an earlier call left (ERANGE)
TmErrnos == {0, 34}

TmInit ==
    /\ tm_pc = "idle"
    /\ tm_in \in TmStrings
    /\ tm_errno \in TmErrnos
    /\ tm_time = 0
    /\ tm_out = [digits |-> <<>>, suffix |-> ""]

\* ra-pb-create: case PBS_CONTACTOR_CLOSE_TIME / PBS_CONTACTOR_OPEN_TIME
TmParse ==
    /\ tm_pc = "idle"
    /\ LET r == str_to_contactor_time(tm_in, tm_errno)
       IN  /\ tm_pc' = IF r.rv = 0 THEN "parsed" ELSE "rejected"
           /\ tm_time' = r.time
    /\ UNCHANGED <<tm_in, tm_errno, tm_out, notTm>>

\* pb_dump: close-time / open-time of an enabled contactor
TmDump ==
    /\ tm_pc = "parsed"
    /\ tm_pc' = "rendered"
    /\ tm_out' = contactor_time_to_str(tm_time)
    /\ UNCHANGED <<tm_in, tm_errno, tm_time, notTm>>

TmNext == TmParse \/ TmDump

InitContactorTime == TmInit /\ CtlIdle /\ WrIdle /\ SyIdle /\ UpIdle /\ RwIdle /\ FrIdle /\ PkIdle /\ GpIdle /\ PbIdle /\ PtIdle /\ KyIdle

SpecContactorTime == InitContactorTime /\ [][TmNext]_vars

(***************************************************************************)
(* C3, C4: ra_write                                                        *)
(***************************************************************************)

\* ceil(len / 1024)
NumPackets(len) == (len + MAX_DATA_PACKET_PAYLOAD - 1) \div MAX_DATA_PACKET_PAYLOAD

RECURSIVE ConcatPayloads(_, _)
ConcatPayloads(pkts, i) ==
    IF i > Len(pkts) THEN <<>>
    ELSE DataPktPayload(pkts[i]) \o ConcatPayloads(pkts, i + 1)

\* C3: a write of len >= 1 bytes that returned 0 sent one WRITE command for
\* [start, start+len-1] and then ceil(len/1024) data packets, all but the
\* last carrying 1024 bytes, the last the remainder, the payloads together
\* being the buffer; and at every moment each packet written so far was
\* preceded by an accepted OK status for the packet before it.
C3_WriteChunks ==
    /\ Len(wr_tx) <= wr_oks + 1
    /\ (wr_pc = "done" /\ wr_rv = 0 /\ wr_len >= 1) =>
        LET n == NumPackets(wr_len)
        IN  /\ Len(wr_tx) = n + 1
            /\ wr_oks = n + 1
            /\ wr_tx[1] = RweCmdPkt(WRITE_CMD, wr_start, AddU32(wr_start, wr_len - 1))
            /\ \A k \in 1 .. n :
                  /\ wr_tx[k + 1][1] = SOD
                  /\ wr_tx[k + 1][4] = WRITE_CMD
                  /\ Len(DataPktPayload(wr_tx[k + 1])) =
                        IF k < n THEN MAX_DATA_PACKET_PAYLOAD
                        ELSE wr_len - MAX_DATA_PACKET_PAYLOAD * (n - 1)
                  /\ wr_tx[k + 1][2] * 256 + wr_tx[k + 1][3] = Len(DataPktPayload(wr_tx[k + 1])) + 1
            /\ ConcatPayloads(SubSeq(wr_tx, 2, n + 1), 1) = Buffer(wr_len)
    /\ (wr_pc = "done" /\ wr_rv = 0 /\ wr_len = 2600 /\ wr_start = <<0, 0>>) =>
            /\ SubSeq(wr_tx[1], 9, 12) = <<0, 0, 10, 39>>
            /\ Len(DataPktPayload(wr_tx[2])) = 1024
            /\ Len(DataPktPayload(wr_tx[3])) = 1024
            /\ Len(DataPktPayload(wr_tx[4])) = 552

\* a successful three-packet write with a short last packet
C3_Witness ==
    wr_pc = "done" /\ wr_rv = 0 /\ wr_len = 2600 /\ Len(wr_tx) = 4

\* C4: once a status response was missing, malformed or not OK, ra_write
\* has returned an error, and nothing more is written to the UART.
C4_FailFast ==
    [][/\ wr_bad' => (wr_pc' = "done" /\ wr_rv' = -1)
       /\ wr_bad => wr_tx' = wr_tx]_vars

\* a write that failed on the status of its second data packet
C4_Witness ==
    wr_bad /\ wr_pc = "done" /\ wr_rv = -1 /\ Len(wr_tx) = 3 /\ wr_len = 2600

(***************************************************************************)
(* C1, C7: cb_uart_recv_and_sync                                           *)
(***************************************************************************)

\* C1: a call of cb_uart_recv_and_sync in which three receive attempts failed
\* with EBADMSG and every flush succeeded returns an error, never 0.
C1_SurfacesBadFrame ==
    (/\ sy_pc = "returned"
     /\ sy_bad = CB_UART_MAX_SYNC_TRIALS
     /\ sy_flushed = CB_UART_MAX_SYNC_TRIALS)
        => sy_rv # 0

\* the length of the garbage in front of the first frame
GarbageLen == Len(sy_stream) % FRAME_SIZE

\* C7: on 0..11 bytes of garbage followed by valid frames, every call that
\* returns success delivers a frame of the stream, the frames come in stream
\* order without repetition, and no more than three receive attempts fail.
C7_Resync ==
    /\ sy_failed <= CB_UART_MAX_SYNC_TRIALS
    /\ \A i \in 1 .. Len(sy_out) :
          sy_out[i].rv = 0 =>
              /\ sy_out[i].frame > GarbageLen
              /\ (sy_out[i].frame - 1 - GarbageLen) % FRAME_SIZE = 0
              /\ \A j \in 1 .. (i - 1) :
                    sy_out[j].rv = 0 => sy_out[j].frame < sy_out[i].frame

(***************************************************************************)
(* C2, C5: ra-update                                                       *)
(***************************************************************************)

\* the completed handshake bytes, command writes and baud rate changes
SetupOps(log) ==
    SelectSeq(log, LAMBDA e :
        \/ e.op \in {"write", "baud"}
        \/ e.op = "read" /\ Len(e.val) = 1)

ExpectedSetupOps ==
    << Op("write", <<0>>), Op("write", <<0>>), Op("read", <<0>>),
       Op("write", <<85>>), Op("read", <<195>>),
       Op("write", InquiryCmdPkt),
       Op("write", BaudrateCmdPkt(115200)),
       Op("baud", <<115200>>),
       Op("write", InquiryCmdPkt) >>

\* C2: a successful setup_uart_communication wrote 0x00, 0x00, read the ACK,
\* wrote 0x55, read 0xC3, sent INQUIRY, BAUDRATE_SETTING(115200), changed the
\* transport to 115200 and sent INQUIRY, in this order; the baud rate changes
\* only after an OK status for BAUDRATE_SETTING.
C2_SetupOrder ==
    /\ up_setup = "ok" => SetupOps(up_log) = ExpectedSetupOps
    /\ \A i \in 1 .. Len(up_log) : up_log[i].op = "baud" => up_brt = "ok"

GpioAcquired == \E i \in 1 .. Len(up_log) : up_log[i].op = "ra_gpio_init"

ResetToNormalInvoked ==
    \E i \in 1 .. Len(up_log) : up_log[i].op = "ra_reset_to_normal"

BootloaderSteps ==
    {"setup", "chipinfo", "ra_read", "print_info", "size_check", "erase", "write"}

C6_ControlBeforeNextRead ==
    [][/\ rw_rxn' > rw_rxn => ~rw_owed
       /\ (rw_pc = "loop_top" /\ rw_pc' = "poll") =>
             \A i \in 1 .. Len(rw_tx') :
                FrameCom(rw_tx'[i]) \in {COM_CHARGE_CONTROL, COM_CHARGE_CONTROL_2} =>
                   rw_tx'[i] = Frame(IF rw_ctx.mcs THEN COM_CHARGE_CONTROL_2
                                                   ELSE COM_CHARGE_CONTROL,
                                     rw_ctx.charge_control)]_vars

C6_Witness ==
    /\ rw_pc = "poll"
    /\ rw_send_cc
    /\ rw_last_rx # <<>>
    /\ FrameCom(rw_last_rx) = COM_CHARGE_STATE_2
    /\ ~rw_owed
    /\ rw_ctx.charge_control # ZeroWord
    /\ rw_tx = <<Frame(COM_CHARGE_CONTROL_2, rw_ctx.charge_control)>>

\* C8: the mcs flag is true exactly if a FW_VERSION frame of platform CCY or
\* a CHARGE_STATE_2 frame has been received so far in the session.
C8_McsIffRevealed == rw_ctx.mcs <=> rw_trig

\* the word a COM is stored in
WordOf(com) ==
    CASE com \in {COM_CHARGE_STATE, COM_CHARGE_STATE_2} -> "charge_state"
      [] com = COM_PT1000_STATE -> "pt1000"
      [] com = COM_FW_VERSION -> "fw_version"
      [] com = COM_GIT_HASH -> "git_hash"
      [] com = COM_ERROR_MESSAGE -> "error_message"

CtxWords == {"charge_control", "charge_state", "pt1000", "fw_version",
             "git_hash", "error_message"}

\* C9: after a frame with COM among CHARGE_STATE, CHARGE_STATE_2,
\* PT1000_STATE, FW_VERSION, GIT_HASH, ERROR_MESSAGE was processed, the word
\* of that COM holds the payload and every other word is as before.
C9_ApplyStoresPayload ==
    rw_last_rx # <<>> =>
        (FrameCom(rw_last_rx) \in {COM_CHARGE_STATE, COM_CHARGE_STATE_2, COM_PT1000_STATE,
                                   COM_FW_VERSION, COM_GIT_HASH, COM_ERROR_MESSAGE} =>
            \A w \in CtxWords :
                rw_ctx[w] = IF w = WordOf(FrameCom(rw_last_rx))
                            THEN FrameData(rw_last_rx)
                            ELSE rw_prev_ctx[w])

(***************************************************************************)
(* C10: duty clamp                                                         *)
(***************************************************************************)

\* C10 (as claimed): after cb_proto_set_duty_cycle(x), in either library,
\* bits 48-57 of charge_control hold min(x, 1000); and enabling PWM and
\* setting duty 1500 on a zero word gives 0x83E8000000000000.
C10_DutyClampEveryImpl ==
    /\ ctl_op.name = "set_duty_cycle" =>
           cb_proto_get_target_duty_cycle(charge_control) = Min(ctl_op.arg, DUTY_MAX)
    /\ (/\ ctl_op.name = "set_duty_cycle"
        /\ ctl_op.arg = 1500
        /\ ctl_prev = <<32768, 0, 0, 0>>) => charge_control = <<33768, 0, 0, 0>>

(***************************************************************************)
(* C11: bit-field isolation of the charge_control setters                  *)
(***************************************************************************)

\* the word with the len bits from `bit` on taken out
OutsideField(w, bit, len) ==
    [w EXCEPT ![LimbOf(bit)] =
        @ - ((@ \div (2 ^ BitIn(bit))) % (2 ^ len)) * (2 ^ BitIn(bit))]

\* the field a setter call is to write: <<bit, len>>
FieldOf(op) ==
    CASE op.name = "set_pwm_active" -> <<63, 1>>
      [] op.name = "set_duty_cycle" -> <<48, 10>>
      [] op.name = "contactorN_set_state" -> <<40 + op.idx, 1>>
      [] op.name \in {"set_ccs_ready", "set_estop"} -> <<60, 4>>

\* C11: every setter call leaves all bits outside its own field as they were
\* (pwm_active bit 63, duty cycle bits 48-57, contactor i bit 40+i, CCS ready
\* and e-stop bits 60-63), and the word stays a 64-bit word.
C11_FieldIsolation ==
    ctl_op.name # "none" =>
        /\ OutsideField(charge_control, FieldOf(ctl_op)[1], FieldOf(ctl_op)[2])
              = OutsideField(ctl_prev, FieldOf(ctl_op)[1], FieldOf(ctl_op)[2])
        /\ \A i \in 1 .. 4 : charge_control[i] \in 0 .. 65535

C11_Witness ==
    /\ ctl_op.name = "set_duty_cycle"
    /\ ctl_op.arg = 65535
    /\ impl = "libcbuart"
    /\ ctl_prev = <<42405, 23130, 4660, 22136>>
    /\ charge_control = <<43007, 23130, 4660, 22136>>

(***************************************************************************)
(* Claims about a single frame                                             *)
(***************************************************************************)

\* C12: for every COM value and every payload, the twelve bytes cb_uart_send
\* produces are SOF 0xA5, COM, the payload big-endian, the CRC and EOF 0x03,
\* and cb_uart_recv, reading them as sent, accepts them and returns exactly
\* the COM and the payload that were sent.
C12_RoundTrip ==
    (fr_pc \in {"sent", "received"} /\ fr_line # <<>> /\ ~fr_touched) =>
        /\ Len(fr_line) = 12
        /\ fr_line[1] = 165
        /\ fr_line[2] = fr_com
        /\ \A i \in 1 .. 4 :
              fr_line[1 + 2 * i] * 256 + fr_line[2 + 2 * i] = fr_data[i]
        /\ fr_line[12] = 3
        /\ (fr_pc = "received" /\ fr_errno # "io") =>
              /\ fr_rv = 0
              /\ fr_out_com = fr_com
              /\ fr_out_data = fr_data

C12_Witness ==
    /\ fr_pc = "received"
    /\ ~fr_touched
    /\ fr_com = COM_INQUIRY
    /\ fr_data = <<42405, 23130, 4660, 22136>>
    /\ fr_prev_com = COM_DIGITAL_OUTPUT
    /\ fr_prev_data = ZeroWord
    /\ fr_rv = 0
    /\ fr_out_com = COM_INQUIRY
    /\ fr_out_data = <<42405, 23130, 4660, 22136>>

\* C13: once twelve bytes were read, cb_uart_recv fails with EBADMSG exactly
\* when the first byte is not 0xA5, the last byte is not 0x03 or the CRC byte
\* differs from the CRC-8/J1850 of COM and payload; on a failure the
\* caller's com and data are left as they were.
C13_BadFrameIff ==
    (fr_pc = "received" /\ fr_errno # "io") =>
        /\ fr_rv \in {0, -1}
        /\ (fr_rv = -1 /\ fr_errno = "EBADMSG")
              <=> \/ fr_line[1] # 165
                  \/ fr_line[12] # 3
                  \/ fr_line[11] # crc8_j1850(SubSeq(fr_line, 2, 10))
        /\ fr_rv = -1 => (fr_out_com = fr_prev_com /\ fr_out_data = fr_prev_data)

C13_Witness ==
    /\ fr_pc = "received"
    /\ fr_rv = -1
    /\ fr_errno = "EBADMSG"
    /\ fr_line[1] = 165
    /\ fr_line[12] = 0
    /\ fr_line[11] = crc8_j1850(SubSeq(fr_line, 2, 10))
    /\ fr_com = COM_CHARGE_STATE
    /\ fr_out_com = COM_INQUIRY
    /\ fr_out_data = <<65535, 65535, 65535, 65535>>

(***************************************************************************)
(* Claims about single bootloader calls                                    *)
(***************************************************************************)

\* the calls whose result hangs on a seven-byte status response
StatusChecked ==
    \/ pk_call.fn \in {"ra_inquiry", "ra_set_baudrate", "ra_write_data"}
    \/ pk_call.fn = "ra_rwe_cmd" /\ pk_call.cmd \in {ERASE_CMD, WRITE_CMD}

\* C14: INQUIRY, BAUDRATE_SETTING, ERASE, WRITE and each data packet return
\* success exactly when the command was written and the seven bytes read
\* have SOD 0x81, LEN 2, ETX 0x03, a valid checksum, RES equal to the
\* command code and STS 0x00; RES = cmd|0x80, a non-zero STS or a malformed
\* field make the call fail.
C14_StatusOkIff ==
    (pk_pc = "returned" /\ StatusChecked) =>
        /\ pk_rv \in {0, -1}
        /\ pk_rv = 0 <=>
              /\ Len(pk_log) = 2
              /\ pk_log[1].op = "write"
              /\ pk_log[2].op = "read"
              /\ LET r == pk_log[2].val
                 IN  /\ Len(r) = 7
                     /\ r[1] = 129
                     /\ r[2] = 0 /\ r[3] = 2
                     /\ r[7] = 3
                     /\ (r[2] + r[3] + r[4] + r[5] + r[6]) % 256 = 0
                     /\ r[4] = pk_call.cmd
                     /\ r[5] = 0

C14_Witness ==
    /\ pk_pc = "returned"
    /\ pk_call.fn = "ra_rwe_cmd"
    /\ pk_call.cmd = ERASE_CMD
    /\ Len(pk_log) = 2
    /\ pk_log[2] = Op("read", <<129, 0, 2, 146, 0, 108, 3>>)
    /\ pk_rv = -1

\* C15: every packet the host writes has ETX 0x03 as its last byte and SUM
\* right before it, and the bytes from LEN up to and including SUM add up
\* to 0 modulo 256.
C15_ChecksumLaw ==
    \A i \in 1 .. Len(pk_log) :
        pk_log[i].op \in {"write", "write_failed"} =>
            LET p == pk_log[i].val
            IN  /\ Len(p) >= 6
                /\ p[Len(p)] = 3
                /\ SumRange(p, 2, Len(p) - 1) % 256 = 0

C15_Witness ==
    /\ pk_pc = "returned"
    /\ pk_call.fn = "ra_write_data"
    /\ pk_call.n = 1024
    /\ pk_log[1].op = "write"
    /\ Len(pk_log[1].val) = 1030
    /\ pk_log[1].val[1029] # 0

\* C18: ra_read called before ra_comm_setup, INQUIRY, BAUDRATE_SETTING and
\* the second INQUIRY have all succeeded fails with a BAD_STATE error and
\* writes no READ command to the UART.
C18_ReadBeforeReady ==
    (pk_pc = "returned" /\ pk_call.fn = "ra_read" /\ ~pk_ready) =>
        /\ pk_rv = -1
        /\ pk_errno = "BAD_STATE"
        /\ \A i \in 1 .. Len(pk_log) : pk_log[i].op \notin {"write", "write_failed"}

\* the READ command for len bytes from start, byte by byte
ExpectedReadCmd(start, len) ==
    LET e    == start[2] + len - 1
        eh   == (start[1] + (e \div 65536)) % 65536
        el   == e % 65536
        body == <<0, 9, 21,
                  start[1] \div 256, start[1] % 256, start[2] \div 256, start[2] % 256,
                  eh \div 256, eh % 256, el \div 256, el % 256>>
    IN  <<1>> \o body \o <<(256 - (SumRange(body, 1, 11) % 256)) % 256, 3>>

\* C19: ra_read with len above 1024 fails with errno EFBIG before anything
\* is written to the UART; with len in 1..1024 it writes exactly one packet,
\* the READ command for [start, start+len-1], and then reads one data packet
\* of len payload bytes and does nothing else.
C19_ReadTooBig ==
    (pk_pc = "returned" /\ pk_call.fn = "ra_read") =>
        /\ pk_call.n > 1024 =>
              (pk_rv = -1 /\ pk_errno = "EFBIG" /\ pk_log = <<>>)
        /\ pk_call.n \in 1 .. 1024 =>
              /\ pk_errno # "EFBIG"
              /\ Len(pk_log) \in {1, 2}
              /\ pk_log[1].op \in {"write", "write_failed"}
              /\ pk_log[1].val = ExpectedReadCmd(pk_call.addr, pk_call.n)
              /\ Len(pk_log) = 2 <=> pk_log[1].op = "write"
              /\ Len(pk_log) = 2 =>
                    /\ pk_log[2].op \in {"read", "read_failed"}
                    /\ pk_log[2].op = "read" => Len(pk_log[2].val) = pk_call.n + 6

C19_Witness ==
    /\ pk_pc = "returned"
    /\ pk_call.fn = "ra_read"
    /\ pk_call.n = 1025
    /\ pk_call.addr = <<2048, 0>>
    /\ pk_rv = -1
    /\ pk_errno = "EFBIG"
    /\ pk_log = <<>>

(***************************************************************************)
(* Claims about the handshake and the end of a failed session              *)
(***************************************************************************)

IsWrite(e, bytes) == e.op \in {"write", "write_failed"} /\ e.val = bytes
IsReadOp(e) == e.op \in {"read", "read_failed"}

\* entry i of the log is the read that follows the two 0x00 pulses
AckReadAt(i) ==
    /\ i >= 3
    /\ up_log[i - 2] = Op("write", <<0>>)
    /\ up_log[i - 1] = Op("write", <<0>>)
    /\ IsReadOp(up_log[i])

\* entry i of the log is the read that follows the 0x55
BootCodeReadAt(i) ==
    /\ i >= 2
    /\ up_log[i - 1] = Op("write", <<85>>)
    /\ IsReadOp(up_log[i])

\* C16: when the byte read after the two 0x00 pulses is not 0x00, or that
\* read times out, no 0x55 is sent; when the byte read after the 0x55 is not
\* 0xC3, or that read times out, the same holds from there on: setup has
\* failed and no INQUIRY is written afterwards.
C16_HandshakeMismatch ==
    \A i \in 1 .. Len(up_log) :
        /\ (AckReadAt(i) /\ up_log[i] # Op("read", <<0>>)) =>
              /\ up_fail = "setup"
              /\ \A j \in (i + 1) .. Len(up_log) :
                    /\ ~IsWrite(up_log[j], <<85>>)
                    /\ ~IsWrite(up_log[j], <<1, 0, 1, 0, 255, 3>>)
        /\ (BootCodeReadAt(i) /\ up_log[i] # Op("read", <<195>>)) =>
              /\ up_fail = "setup"
              /\ \A j \in (i + 1) .. Len(up_log) :
                    ~IsWrite(up_log[j], <<1, 0, 1, 0, 255, 3>>)

C16_Witness ==
    /\ Len(up_log) >= 6
    /\ \E i \in 1 .. Len(up_log) :
          /\ BootCodeReadAt(i)
          /\ up_log[i] = Op("read", <<0>>)
          /\ up_log[Len(up_log)].op = "ra_reset_to_normal"
    /\ up_fail = "setup"
    /\ up_pc = "close_out"

\* the log entries that stand for bytes of a bootloader command on the UART
CommandOps ==
    {"write", "write_failed", "ra_get_chipinfo", "ra_read", "ra_rwe_cmd_erase", "ra_write"}

\* the steps of main whose error return comes from a bootloader function
FailedBootloaderStep == up_fail \in {"setup", "chipinfo", "ra_read", "erase", "write"}

\* C17: once setup_uart_communication (ra_comm_setup, ra_inquiry,
\* ra_set_baudrate), the chip-info discovery of fw_info, erase and flash,
\* ra_read, the ERASE command or ra_write has returned an error, no step of
\* the run writes a further bootloader command to the UART.
C17_FailedStepEndsSession ==
    [][FailedBootloaderStep =>
          \A j \in (Len(up_log) + 1) .. Len(up_log') : up_log'[j].op \notin CommandOps]_vars

C17_Witness ==
    /\ up_cmd = "CMD_FLASH"
    /\ up_fail = "erase"
    /\ up_pc = "exited"
    /\ \E i \in 1 .. Len(up_log) :
          /\ up_log[i] = Op("ra_rwe_cmd_erase", <<-1>>)
          /\ \A j \in (i + 1) .. Len(up_log) : up_log[j].op \notin CommandOps

(***************************************************************************)
(* Claims about ra-raw's inquiries                                         *)
(***************************************************************************)

\* C20: ra-raw writes the FW_VERSION inquiry exactly once, as the first
\* frame the main loop transmits; it writes the GIT_HASH inquiry at most
\* once and only after a FW_VERSION frame has been received; no inquiry is
\* repeated, also when no response ever arrives.
C20_InquiriesOnce ==
    /\ rw_hist.fw_inq <= 1
    /\ rw_hist.git_inq <= 1
    /\ ~rw_hist.git_early
    /\ rw_hist.first \in {<<>>, <<255, 10>>}
    /\ (rw_pc = "poll" \/ rw_rxn > 0 \/ rw_keyn > 0) => rw_hist.fw_inq = 1

C20_Witness ==
    /\ rw_pc = "poll"
    /\ rw_rxn = 2
    /\ rw_hist.fw_inq = 1
    /\ rw_hist.git_inq = 1
    /\ rw_hist.fw_rx
    /\ rw_com = COM_PT1000_STATE
    /\ rw_tx = <<>>

(***************************************************************************)
(* C21: in the flash command ERASE is sent only after the firmware file    *)
(* passed every size check (non-empty, not larger than the flash area,     *)
(* divisible by the write unit), WRITE is sent only after ERASE returned   *)
(* OK, and a file that fails a check causes neither to be sent.            *)
(***************************************************************************)
FileSizeOk ==
    /\ up_filesize # 0
    /\ up_filesize <= FlashArea.size
    /\ up_filesize % FlashArea.write_unit_size = 0

EraseAt(i) == up_log[i].op = "ra_rwe_cmd_erase"
WriteAt(i) == up_log[i].op = "ra_write"

C21_EraseAfterSizeChecks ==
    up_cmd = "CMD_FLASH" =>
        /\ \A i \in 1 .. Len(up_log) : EraseAt(i) => FileSizeOk
        /\ \A i \in 1 .. Len(up_log) :
              WriteAt(i) => i > 1 /\ EraseAt(i - 1) /\ up_log[i - 1].val = <<>>
        /\ ~FileSizeOk => \A i \in 1 .. Len(up_log) : ~EraseAt(i) /\ ~WriteAt(i)

\* a flash run ended on the file that is not a multiple of the write unit
C21_Witness ==
    /\ up_cmd = "CMD_FLASH"
    /\ up_pc = "exited"
    /\ up_setup = "ok"
    /\ up_filesize = 200
    /\ up_fail = "size_check"

(***************************************************************************)
(* C22: each reset operation drives RESET low, then MD (low for            *)
(* reset_to_bootloader, high for reset_to_normal and hold_reset), then     *)
(* waits (the configured reset duration, or until a signal for hold_reset) *)
(* and then drives RESET high; MD is written only while RESET is low, and  *)
(* after a successful return RESET is high with MD low for bootloader and  *)
(* MD high otherwise.                                                      *)
(***************************************************************************)
\* the level RESET has before the i-th entry of the log
RECURSIVE RstBefore(_)
RstBefore(i) ==
    IF i = 1 THEN GPIOD_LINE_VALUE_ACTIVE
    ELSE IF gp_log[i - 1].op = "rst" THEN gp_log[i - 1].val
    ELSE RstBefore(i - 1)

MdFor(fn) == IF fn = "ra_reset_to_bootloader" THEN 0 ELSE 1

\* the wait the operation is to make: the reset period in microseconds
ExpectedWait(fn, dur) ==
    IF fn = "ra_hold_reset" THEN Op("pause", <<>>)
    ELSE Op("usleep", Micros(dur))

WaitDone(e) ==
    IF e.op = "usleep" THEN Op("usleep", <<0>> \o e.val) ELSE e

C22_ResetSequence ==
    /\ \A i \in 1 .. Len(gp_log) :
          gp_log[i].op = "md" => RstBefore(i) = GPIOD_LINE_VALUE_INACTIVE
    /\ (gp_pc = "returned" /\ gp_rv = 0) =>
          /\ Len(gp_log) >= 4
          /\ LET n == Len(gp_log)
             IN  /\ gp_log[n - 3] = Op("rst", 0)
                 /\ gp_log[n - 2] = Op("md", MdFor(gp_fn))
                 /\ WaitDone(gp_log[n - 1]) = ExpectedWait(gp_fn, gp_dur)
                 /\ gp_log[n] = Op("rst", 1)
          /\ gp_rst = 1
          /\ gp_md = MdFor(gp_fn)

(***************************************************************************)
(* C23: ra-update exits with status 0 iff every operation of the requested *)
(* command succeeded; any failed operation (GPIO acquisition, file         *)
(* mapping, handshake, chip-info discovery, read, erase, write, invalid    *)
(* firmware info block) yields a non-zero exit status.                     *)
(***************************************************************************)
\* the calls main makes itself and logs with their result
MainOps == {"ra_reset_to_normal", "ra_hold_reset", "ra_reset_to_bootloader", "baud",
            "ra_get_chipinfo", "ra_read", "ra_rwe_cmd_erase", "ra_write"}

OperationFailed ==
    \/ up_fail # "none"
    \/ \E i \in 1 .. Len(up_log) :
          \/ up_log[i].op \in MainOps /\ up_log[i].val = <<-1>>
          \/ up_log[i].op \in {"write_failed", "read_failed", "flush_failed"}

C23_ExitStatus ==
    up_pc = "exited" => (up_rc = "EXIT_SUCCESS" <=> ~OperationFailed)

(***************************************************************************)
(* C24: resources are released on every exit path: every path of ra-raw    *)
(* and ra-update that leaves main after the UART was opened closes the     *)
(* UART, and every path that leaves after the GPIO lines were acquired     *)
(* releases them, including all error paths.                               *)
(***************************************************************************)
C24_ReleasedOnExit ==
    rw_pc = "exited" => ~rw_res.uart

(***************************************************************************)
(* C25: for every param_block with both magics valid and every field       *)
(* within its documented range, pb_read applied to the bytes produced by   *)
(* pb_write returns success and a block equal to the one written; such a   *)
(* block is never classified as a legacy block.                            *)
(***************************************************************************)
C25_VersionedRoundTrip ==
    (pb_pc = "read" /\ pb_kind = "pb_write") =>
        /\ pb_rv = 0
        /\ pb_out = pb_block
        /\ ~pb_legacy

(***************************************************************************)
(* C26: pb_read of a 22-byte block whose leading magic and magic at the    *)
(* legacy offset both equal 0xC001F00D and whose CRC is valid returns      *)
(* success with a version-1 block in which temperatures, contactor types   *)
(* and e-stops are copied, every contactor type WITH_FEEDBACK_NO (2) is    *)
(* replaced by WITH_FEEDBACK_NC (3), resistance offsets and close/open     *)
(* times are zero, and the CRC passes pb_check_crc; with an invalid legacy *)
(* CRC it returns BAD_CRC.                                                 *)
(***************************************************************************)
LegacyCrcValid ==
    pb_block.crc = crc8(SubSeq(pb_file, 1, OldPbSize - 1))

C26_LegacyMigration ==
    (pb_pc = "read" /\ pb_kind = "legacy") =>
        IF LegacyCrcValid
        THEN /\ pb_rv = 0
             /\ pb_out.sob = MARKER
             /\ pb_out.eob = MARKER
             /\ pb_out.version = 1
             /\ pb_out.temperature = pb_block.temperature
             /\ pb_out.estop = pb_block.estop
             /\ \A i \in 1 .. 2 :
                   pb_out.contactor_type[i] =
                       IF pb_block.contactor[i] = 2 THEN 3 ELSE pb_block.contactor[i]
             /\ pb_out.temperature_resistance_offset = <<0, 0, 0, 0>>
             /\ pb_out.contactor_close_time = <<0, 0>>
             /\ pb_out.contactor_open_time = <<0, 0>>
             /\ pb_check_crc(pb_out)
        ELSE pb_rv = PB_READ_ERROR_CRC

\* the legacy block of the specification's example was read and migrated
C26_Witness ==
    /\ pb_pc = "read"
    /\ pb_kind = "legacy"
    /\ pb_rv = 0
    /\ pb_block.temperature = <<-3000, -1976, -952, 80>>
    /\ pb_block.contactor = <<2, 2>>
    /\ pb_block.estop = <<1, 1, 1>>
    /\ pb_out.contactor_type[1] = 3
    /\ pb_out.contactor_type[2] = 3

(***************************************************************************)
(* C27: PT1000 decode of the word 0x03E8_03E0_1FFC_0000: channel 0 (16-bit *)
(* value 0x03E8) is active at 25.0 degrees C with no error flags,          *)
(* channel 2 (16-bit value 0x1FFC) is unused because its 14-bit field is   *)
(* the sentinel 0x1FFF, and channel 3 (value 0) is active at 0.0 degrees C *)
(* with no error flags.                                                    *)
(***************************************************************************)
\* 0x03E8_03E0_1FFC_0000
PtExampleWord == <<1000, 992, 8188, 0>>

PtOtherChannels ==
    /\ pt_ch = 0 => pt_active /\ pt_temp = 250 /\ pt_errors = 0
    /\ pt_ch = 3 => pt_active /\ pt_temp = 0 /\ pt_errors = 0

\* as stated: channel 2 is reported unused
C27_Pt1000Example ==
    (pt_pc = "decoded" /\ pt_word = PtExampleWord) =>
        /\ PtOtherChannels
        /\ pt_ch = 2 => ~pt_active

\* as the accessors decode it: the 14-bit field of 0x1FFC is 0x07FF, so
\* channel 2 is active at 204.7 degrees C with no error flags; a channel is
\* unused exactly when its 16-bit value is 0x7FFC .. 0x7FFF
C27_Pt1000ExampleAmended ==
    /\ (pt_pc = "decoded" /\ pt_word = PtExampleWord) =>
          /\ PtOtherChannels
          /\ pt_ch = 2 => pt_active /\ pt_temp = 2047 /\ pt_errors = 0
    /\ pt_pc = "decoded" =>
          (pt_active <=> pt_word[pt_ch + 1] \notin 32764 .. 32767)

C27_Witness ==
    /\ pt_pc = "decoded"
    /\ pt_word = PtExampleWord
    /\ pt_ch = 2
    /\ pt_active

(***************************************************************************)
(* C28: the top of ra-raw's loop writes a charge control frame (the        *)
(* automatic emission, not the 'c' key) only if auto-send is enabled and a *)
(* CHARGE_STATE or CHARGE_STATE_2 frame has been received since the        *)
(* previous automatic emission; key presses, non-state frames and loop     *)
(* iterations without a new state frame never trigger one.                 *)
(***************************************************************************)
C28_AutoEmissionNeedsStateFrame ==
    [][(rw_pc = "loop_top" /\ HasChargeControl(rw_tx')) =>
          rw_send_cc /\ rw_fresh]_vars

(***************************************************************************)
(* C29: the charge control frame the top of ra-raw's loop writes matches   *)
(* the variant of the last received state frame: COM CHARGE_CONTROL when   *)
(* that frame was CHARGE_STATE, COM CHARGE_CONTROL_2 when it was           *)
(* CHARGE_STATE_2, for every order of received FW_VERSION, CHARGE_STATE    *)
(* and CHARGE_STATE_2 frames.                                              *)
(***************************************************************************)
ControlVariantOf(com) ==
    IF com = COM_CHARGE_STATE_2 THEN COM_CHARGE_CONTROL_2 ELSE COM_CHARGE_CONTROL

C29_VariantMatchesLastState ==
    [][(rw_pc = "loop_top" /\ IsChargeState(rw_state_com)) =>
          \A i \in 1 .. Len(rw_tx') :
             FrameCom(rw_tx'[i]) \in {COM_CHARGE_CONTROL, COM_CHARGE_CONTROL_2} =>
                FrameCom(rw_tx'[i]) = ControlVariantOf(rw_state_com)]_vars

(***************************************************************************)
(* C30: every CHARGE_CONTROL_2 frame ra-raw writes carries in bits 60-63 a *)
(* value of the CCS-ready enumeration {0 NOT_READY, 1 READY,               *)
(* 2 EMERGENCY_STOP}, for every interleaving of key commands and received  *)
(* frames, including sessions that switch from classic to MCS mode after   *)
(* classic key commands (PWM enable) were issued.                          *)
(***************************************************************************)
C30_CcsReadyInEnumeration ==
    \A i \in 1 .. Len(rw_tx) :
        FrameCom(rw_tx[i]) = COM_CHARGE_CONTROL_2 =>
            cb_proto_get_target_ccs_ready(FrameData(rw_tx[i])) \in
                {CC2_CCS_NOT_READY, CC2_CCS_READY, CC2_CCS_EMERGENCY_STOP}

(***************************************************************************)
(* C31: for every valid frame ra-raw receives, whatever its COM byte, the  *)
(* slot of ts_str_recv_com written by cb_proto_set_ts_str has an index in  *)
(* [0, COM_MAX): a frame with COM = 0xFF (INQUIRY) or any value >= 0x14    *)
(* causes no write outside the array.                                      *)
(***************************************************************************)
C31_TimestampSlotInRange ==
    rw_last_rx # <<>> =>
        cb_proto_set_ts_str(FrameCom(rw_last_rx)) \in 0 .. (COM_MAX - 1)

(***************************************************************************)
(* C32: after any sequence of ra-raw key commands in classic mode,         *)
(* including arbitrarily repeated '+' and '-', the target duty cycle in    *)
(* bits 48-57 of charge_control is within [0, 1000]: '+' adds 10 and       *)
(* saturates at 1000, '-' subtracts 10 and saturates at 0.                 *)
(***************************************************************************)
C32_DutyCycleKeys ==
    ky_pc = "menu" =>
        LET duty == cb_proto_get_target_duty_cycle(ky_cc) IN
        /\ duty \in 0 .. DUTY_MAX
        /\ ky_cmd = "+" => duty = Min(ky_prev + 10, DUTY_MAX)
        /\ ky_cmd = "-" => duty = IF ky_prev < 10 THEN 0 ELSE ky_prev - 10

\* '+' pressed at 1000
C32_Witness ==
    /\ ky_pc = "menu"
    /\ ky_cmd = "+"
    /\ ky_prev = DUTY_MAX
    /\ cb_proto_get_target_duty_cycle(ky_cc) = DUTY_MAX

(***************************************************************************)
(* C33: ra_comm_setup returns success (0) only if it wrote both 0x00       *)
(* pulses and the 0x55 code and read back 0x00 and then 0xC3; a failure of *)
(* any of its UART writes makes it return an error rather than success.    *)
(***************************************************************************)
\* what a complete handshake leaves in the log
CommSetupHandshake ==
    << Op("flush", <<>>),
       Op("write", LOW_PULSE_PATTERN),
       Op("write", LOW_PULSE_PATTERN),
       Op("read", <<ACK_PATTERN>>),
       Op("write", GENERIC_CODE_PATTERN),
       Op("read", <<BOOT_CODE_PATTERN>>) >>

\* setup_uart_communication goes on to ra_inquiry only after ra_comm_setup
\* returned 0
C33_CommSetupSuccess ==
    up_pc = "inquiry1" =>
        /\ Len(up_log) >= Len(CommSetupHandshake)
        /\ SubSeq(up_log, Len(up_log) - Len(CommSetupHandshake) + 1, Len(up_log))
              = CommSetupHandshake

(***************************************************************************)
(* C34: ra_read_data(bufsize) returns success only if the received bytes   *)
(* form a well-formed data packet with RES = READ_CMD whose LEN field      *)
(* equals bufsize + 1, so that the bufsize bytes copied to the caller are  *)
(* exactly the packet's DATA field and never include SUM, ETX or bytes     *)
(* beyond the packet.                                                      *)
(***************************************************************************)
\* the bytes ra_read_data received
ReadDataBytes == pk_log[1].val

C34_ReadDataLength ==
    (pk_pc = "returned" /\ pk_call.fn = "ra_read_data" /\ pk_rv = 0) =>
        /\ pk_log[1].op = "read"
        /\ ReadDataBytes[4] = READ_CMD
        /\ ReadDataBytes[2] * 256 + ReadDataBytes[3] = pk_call.n + 1
        /\ ReadDataBytes = RspPkt(READ_CMD, SubSeq(ReadDataBytes, 5, 4 + pk_call.n))

(***************************************************************************)
(* C35: ra_get_signature and ra_get_area_info return success only if the   *)
(* response's RES byte equals the command code exactly; a full-length,     *)
(* checksum-valid response whose RES has the error bit set (cmd | 0x80) is *)
(* reported as a failure, and a valid 7-byte status packet received in the *)
(* first read always makes the call fail.                                  *)
(***************************************************************************)
LongCallReturned ==
    /\ pk_pc = "returned"
    /\ pk_call.fn \in {"ra_get_signature", "ra_get_area_info"}

\* the first read of the call delivered its seven bytes
FirstReadDone == Len(pk_log) >= 2 /\ pk_log[2].op = "read"

C35_LongResponseRes ==
    LongCallReturned =>
        /\ pk_rv = 0 => (FirstReadDone /\ pk_log[2].val[4] = pk_call.cmd)
        /\ (FirstReadDone /\ ~ra_is_invalid_status_pkt(pk_log[2].val, pk_call.cmd)) =>
              pk_rv # 0

(***************************************************************************)
(* C36: every READ or WRITE command sent by ra_read or ra_write carries an *)
(* end address greater than or equal to its start address, computed        *)
(* without 32-bit wrap-around; in particular a call with len = 0 sends no  *)
(* command whose end address is start - 1 modulo 2^32.                     *)
(***************************************************************************)
\* the SAD and EAD fields of a command packet, as <<high half, low half>>
CmdStartAddr(pkt) == <<pkt[5] * 256 + pkt[6], pkt[7] * 256 + pkt[8]>>
CmdEndAddr(pkt) == <<pkt[9] * 256 + pkt[10], pkt[11] * 256 + pkt[12]>>

GeU32(a, b) == a[1] > b[1] \/ (a[1] = b[1] /\ a[2] >= b[2])

\* the command packet ra_write sent first
C36_EndNotBelowStart ==
    wr_tx # <<>> =>
        /\ CmdStartAddr(wr_tx[1]) = wr_start
        /\ GeU32(CmdEndAddr(wr_tx[1]), CmdStartAddr(wr_tx[1]))

(***************************************************************************)
(* C37: ra_gpio_init returns a non-NULL context only if both lines were    *)
(* successfully requested from the GPIO chip (the stored line request is   *)
(* valid); if requesting the lines fails it returns NULL, so no reset      *)
(* operation ever runs on an unacquired line request.                      *)
(***************************************************************************)
\* ra_gpio_init returned a context
GpCtxReturned == gp_pc \notin {"init", "no_ctx"}

C37_InitAcquiresLines ==
    /\ GpCtxReturned => gp_req = "valid"
    /\ gp_calls > 0 => gp_req = "valid"

(***************************************************************************)
(* C38: ra-raw restores the terminal at exit only with settings it         *)
(* previously saved: tcsetattr with termios_orig is never executed on a    *)
(* path where make_stdin_unbuffered, which fills termios_orig, has not     *)
(* run.                                                                    *)
(***************************************************************************)
C38_RestoresSavedTermios == rw_res.tcset # "uninitialised"

(***************************************************************************)
(* C40: ra-raw exits with status 0 when the user ends the session with 'q' *)
(* or Ctrl-C and no error occurred during the session; a non-zero status   *)
(* is returned only when an operation failed.                              *)
(***************************************************************************)
\* main left because of the key alone: nothing had failed before
C40_QuitExitsZero ==
    (rw_pc = "exited" /\ rw_hist.quit) => rw_rc = "EXIT_SUCCESS"

(***************************************************************************)
(* C39: every string "N ms" accepted by str_to_contactor_time stores       *)
(* min(N div 10, 255), contactor_time_to_str renders every stored value v  *)
(* in 0 .. 255 as exactly "v*10 ms", and so a string of a multiple of 10   *)
(* from 0 to 2550 ms comes back unchanged from string to binary to string. *)
(***************************************************************************)
C39_ContactorTimeRoundTrip ==
    /\ tm_pc \in {"parsed", "rendered"} =>
           tm_time = Min(DecValue(tm_in.digits) \div 10, 255)
    /\ tm_pc = "rendered" =>
           /\ tm_out = [digits |-> DecString(tm_time * 10), suffix |-> " ms"]
           /\ (/\ tm_in.suffix = " ms"
               /\ DecValue(tm_in.digits) % 10 = 0
               /\ DecValue(tm_in.digits) <= 2550) => tm_out = tm_in

====
